---- MODULE Spec2Model ----
(***************************************************************************)
(* Model of app/static/js/flight_schedule.js: the flight timeline (Gantt)  *)
(* page.  Time resolver, status normaliser, passenger classifier and the   *)
(* delay ledger of the time-edit dialog.                                   *)
(*                                                                         *)
(* Conventions                                                             *)
(*   - a JavaScript string is a sequence of one-character strings;         *)
(*   - a nullable value is Null (<<>>) or Some(v) (<<v>>);                 *)
(*   - a Date is Some(m), m the instant in whole minutes (the code only    *)
(*     adds multiples of 60000 ms to the instants it parses);              *)
(*   - NaN is Null where a number is expected.                             *)
(***************************************************************************)
EXTENDS Integers, Sequences, FiniteSets, TLC

VARIABLES
    status,       \* normaliseStatus: the argument (row.flight_status)
    statusNorm,   \* normaliseStatus: the value returned
    rows,         \* the rows last handed to buildFlightsFromRows (data.results)
    newFlights,   \* buildFlightsFromRows: the value returned
    pc,           \* position of the driver that applies a pure function
    flights,      \* let flights: the active flight set
    chartStart,   \* let chartStart
    chartEnd,     \* let chartEnd
    durationMs,   \* let durationMs (in minutes)
    byReg,        \* let byReg: registration -> flights
    regs,         \* let regs: the sorted registrations
    axis,         \* axisEl: the instants of the ticks
    lanes,        \* rowsContainer: the lanes emitted, each with its bars
    baseFilter,   \* the value of the #base-filter select
    dateInput,    \* the value of input[name="date"]
    loading,      \* the loading overlay is shown
    loadedDate,   \* the "Loaded" date label
    pending,      \* the fetches of GANTT_URL in flight, in dispatch order
    pax,          \* classifyPaxStatus: the argument, one passenger record
    paxStatus,    \* classifyPaxStatus: the value returned
    seatmapPax,   \* buildSeatmapForFlight: f.paxList
    seatmapFlight, \* buildSeatmapForFlight: f.reg and f.aircraftType
    seatmap,      \* the seat map dialog: the layout key and, in
                  \* #seatmap-container, seat code -> the seat element
    currentFlight,   \* let currentFlight
    currentTimeMode, \* let currentTimeMode: "dep" or "arr"
    timeModalOpen,   \* the time-edit dialog is shown
    delayRows,       \* the rows of #delay-rows: code, minutes and remark inputs
    alerts,          \* the alerts the last handler raised
    savePending,     \* the save request in flight: its payload
    core,            \* #time-modal-core: input id -> value
    delayRequired,   \* #delay-required: its text
    delayAllocated,  \* #delay-allocated: its text
    delayShown,      \* #delay-section is shown (no d-none class)
    timesPending,    \* the fetchEnvisionTimes calls in flight, each with the
                     \* flight, the mode and the inputs of the dialog that made it
    crewOf,          \* flight id -> f.crew, the crew list cached on the flight
    crewPending,     \* the fetchEnvisionCrew calls in flight, each with the
                     \* flight and the element its callback writes
    crewCalls,       \* flight id -> the number of fetchEnvisionCrew calls made
    modalCrew,       \* #modal-crew: what it shows
    crewPanel,       \* #gantt-crew-body: what it shows
    paxListFor,      \* the flight whose passengers the passenger list shows
    apgPending       \* the plan push requests in flight: their payloads

statusVars == <<status, statusNorm>>

buildVars == <<rows, newFlights>>

ganttVars == <<flights, chartStart, chartEnd, durationMs, byReg, regs, axis,
               lanes, baseFilter, dateInput, loading, loadedDate, pending>>

paxVars == <<pax, paxStatus>>

seatVars == <<seatmapPax, seatmapFlight, seatmap>>

editVars == <<currentFlight, currentTimeMode, timeModalOpen, delayRows,
              alerts, savePending, core, delayRequired, delayAllocated,
              delayShown, timesPending>>

crewVars == <<crewOf, crewPending, crewCalls, modalCrew, crewPanel>>

actionVars == <<paxListFor, apgPending>>

vars == <<statusVars, buildVars, pc, ganttVars, paxVars, seatVars, editVars,
          crewVars, actionVars>>

-----------------------------------------------------------------------------
(* Nullable values *)

Null == <<>>

Some(v) == <<v>>

IsNull(x) == x = Null

Val(x) == x[1]

-----------------------------------------------------------------------------
(* Strings as character sequences *)

UpperChars == <<"A","B","C","D","E","F","G","H","I","J","K","L","M",
                "N","O","P","Q","R","S","T","U","V","W","X","Y","Z">>

LowerChars == <<"a","b","c","d","e","f","g","h","i","j","k","l","m",
                "n","o","p","q","r","s","t","u","v","w","x","y","z">>

DigitChars == <<"0","1","2","3","4","5","6","7","8","9">>

SpaceChars == {" ", "\t", "\n"}

AllDigits == {DigitChars[i] : i \in 1..10}

IsDigit(c) == c \in AllDigits

DigitValOf == [c \in AllDigits |-> (CHOOSE i \in 1..10 : DigitChars[i] = c) - 1]

DigitVal(c) == DigitValOf[c]

LowerOf == [c \in {UpperChars[i] : i \in 1..26} |->
               LowerChars[CHOOSE i \in 1..26 : UpperChars[i] = c]]

UpperOf == [c \in {LowerChars[i] : i \in 1..26} |->
               UpperChars[CHOOSE i \in 1..26 : LowerChars[i] = c]]

ToLowerChar(c) == IF c \in DOMAIN LowerOf THEN LowerOf[c] ELSE c

ToUpperChar(c) == IF c \in DOMAIN UpperOf THEN UpperOf[c] ELSE c

\* String.prototype.toLowerCase
toLowerCase(s) == [i \in 1..Len(s) |-> ToLowerChar(s[i])]

\* String.prototype.toUpperCase
toUpperCase(s) == [i \in 1..Len(s) |-> ToUpperChar(s[i])]

\* String.prototype.includes
includes(s, k) ==
    \E i \in 0..(Len(s) - Len(k)) : SubSeq(s, i + 1, i + Len(k)) = k

\* String.prototype.startsWith
startsWith(s, k) == Len(k) <= Len(s) /\ SubSeq(s, 1, Len(k)) = k

\* String.prototype.trim
RECURSIVE trimStart(_)
trimStart(s) ==
    IF s /= <<>> /\ Head(s) \in SpaceChars THEN trimStart(Tail(s)) ELSE s

RECURSIVE trimEnd(_)
trimEnd(s) ==
    IF s /= <<>> /\ s[Len(s)] \in SpaceChars
    THEN trimEnd(SubSeq(s, 1, Len(s) - 1))
    ELSE s

trim(s) == trimEnd(trimStart(s))

\* The TLA+ string spelled by a character sequence
RECURSIVE Str(_)
Str(s) == IF s = <<>> THEN "" ELSE Head(s) \o Str(Tail(s))

\* Concatenation of a sequence of strings
RECURSIVE Concat(_)
Concat(ss) == IF ss = <<>> THEN <<>> ELSE Head(ss) \o Concat(Tail(ss))

\* All sequences over S of length 0..n
SeqsUpTo(S, n) == UNION {[1..k -> S] : k \in 0..n}

-----------------------------------------------------------------------------
(* The page before any flight is built *)

GanttIdle ==
    /\ flights = <<>>
    /\ chartStart = Null
    /\ chartEnd = Null
    /\ durationMs = 0
    /\ byReg = <<>>
    /\ regs = <<>>
    /\ axis = <<>>
    /\ lanes = <<>>
    /\ baseFilter = <<>>
    /\ dateInput = ""
    /\ loading = FALSE
    /\ loadedDate = Null
    /\ pending = <<>>

PaxIdle ==
    /\ pax = Null
    /\ paxStatus = Null

SeatIdle ==
    /\ seatmapPax = <<>>
    /\ seatmapFlight = Null
    /\ seatmap = Null

EditIdle ==
    /\ currentFlight = Null
    /\ currentTimeMode = Null
    /\ timeModalOpen = FALSE
    /\ delayRows = <<>>
    /\ alerts = <<>>
    /\ savePending = Null
    /\ core = <<>>
    /\ delayRequired = <<"0">>
    /\ delayAllocated = <<"0">>
    /\ delayShown = FALSE
    /\ timesPending = <<>>
    /\ crewOf = <<>>
    /\ crewPending = <<>>
    /\ crewCalls = <<>>
    /\ modalCrew = <<>>
    /\ crewPanel = <<>>
    /\ paxListFor = Null
    /\ apgPending = <<>>

-----------------------------------------------------------------------------
(* normaliseStatus *)

KW_planning      == <<"p","l","a","n","n","i","n","g">>
KW_onblocks      == <<"o","n"," ","b","l","o","c","k","s">>
KW_offblocks     == <<"o","f","f"," ","b","l","o","c","k","s">>
KW_takeoff       == <<"t","a","k","e"," ","o","f","f">>
KW_landed        == <<"l","a","n","d","e","d">>
KW_returntostand == <<"r","e","t","u","r","n"," ","t","o"," ","s","t","a","n","d">>
KW_divert        == <<"d","i","v","e","r","t">>

ST_planning      == KW_planning
ST_onblocks      == <<"o","n","b","l","o","c","k","s">>
ST_offblocks     == <<"o","f","f","b","l","o","c","k","s">>
ST_takeoff       == <<"t","a","k","e","o","f","f">>
ST_landed        == KW_landed
ST_returntostand == <<"r","e","t","u","r","n","t","o","s","t","a","n","d">>
ST_diverted      == <<"d","i","v","e","r","t","e","d">>
ST_unknown       == <<"u","n","k","n","o","w","n">>

\* The variant that tests "landed" before the blocks keywords
normaliseStatus_reordered(st) ==
    IF IsNull(st) \/ Val(st) = <<>> THEN ST_unknown
    ELSE LET s == toLowerCase(Val(st)) IN
         IF includes(s, KW_landed)        THEN ST_landed
    ELSE IF includes(s, KW_planning)      THEN ST_planning
    ELSE IF includes(s, KW_onblocks)      THEN ST_onblocks
    ELSE IF includes(s, KW_offblocks)     THEN ST_offblocks
    ELSE IF includes(s, KW_takeoff)       THEN ST_takeoff
    ELSE IF includes(s, KW_returntostand) THEN ST_returntostand
    ELSE IF includes(s, KW_divert)        THEN ST_diverted
    ELSE ST_unknown

normaliseStatus(st) ==
    IF IsNull(st) \/ Val(st) = <<>> THEN ST_unknown
    ELSE LET s == toLowerCase(Val(st)) IN
         IF includes(s, KW_planning)      THEN ST_planning
    ELSE IF includes(s, KW_onblocks)      THEN ST_onblocks
    ELSE IF includes(s, KW_offblocks)     THEN ST_offblocks
    ELSE IF includes(s, KW_takeoff)       THEN ST_takeoff
    ELSE IF includes(s, KW_landed)        THEN ST_landed
    ELSE IF includes(s, KW_returntostand) THEN ST_returntostand
    ELSE IF includes(s, KW_divert)        THEN ST_diverted
    ELSE ST_unknown

\* Pieces of status text the flight data source sends, in mixed case
StatusFrags ==
    { <<"P","l","a","n","n","i","n","g">>,
      <<"O","N"," ","B","L","O","C","K","S">>,
      <<"o","f","f"," ","b","l","o","c","k","s">>,
      <<"T","a","k","e"," ","O","f","f">>,
      <<"L","A","N","D","E","D">>,
      <<"R","e","t","u","r","n"," ","T","o"," ","S","t","a","n","d">>,
      <<"D","i","v","e","r","t","e","d">>,
      <<" ","-"," ">>,
      <<"D","e","l","a","y","e","d">>,
      ST_onblocks, ST_offblocks, ST_takeoff, ST_returntostand, ST_unknown }

MaxFrags == 2

StatusInputs ==
    {Null} \cup {Some(Concat(fs)) : fs \in SeqsUpTo(StatusFrags, MaxFrags)}

InitStatus ==
    /\ status \in StatusInputs
    /\ statusNorm = Null
    /\ pc = "input"
    /\ rows = <<>>
    /\ newFlights = <<>>
    /\ GanttIdle
    /\ PaxIdle
    /\ SeatIdle
    /\ EditIdle

\* statusNorm: normaliseStatus(row.flight_status)
NormaliseStatus ==
    /\ pc = "input"
    /\ statusNorm' = Some(normaliseStatus(status))
    /\ pc' = "done"
    /\ UNCHANGED <<status, buildVars, ganttVars, paxVars, seatVars, editVars, crewVars, actionVars>>

NextStatus == NormaliseStatus

SpecStatus == InitStatus /\ [][NextStatus]_vars

-----------------------------------------------------------------------------
(* parseInt, parseDate *)

RECURSIVE DigitsPrefix(_)
DigitsPrefix(s) ==
    IF s /= <<>> /\ IsDigit(Head(s))
    THEN <<Head(s)>> \o DigitsPrefix(Tail(s))
    ELSE <<>>

RECURSIVE DigitsValue(_)
DigitsValue(ds) ==
    IF ds = <<>> THEN 0
    ELSE 10 * DigitsValue(SubSeq(ds, 1, Len(ds) - 1)) + DigitVal(ds[Len(ds)])

\* parseInt(s, 10): leading white space skipped, an optional sign, then the
\* longest run of digits; NaN (Null) when there is no digit.
parseInt(s) ==
    LET t    == trimStart(s)
        neg  == t /= <<>> /\ Head(t) = "-"
        sgn  == t /= <<>> /\ Head(t) \in {"-", "+"}
        body == IF sgn THEN Tail(t) ELSE t
        ds   == DigitsPrefix(body)
    IN  IF ds = <<>> THEN Null
        ELSE Some(IF neg THEN 0 - DigitsValue(ds) ELSE DigitsValue(ds))

\* a || b for a nullable string a: null and "" are falsy
OrStr(a, b) == IF IsNull(a) \/ Val(a) = <<>> THEN b ELSE Val(a)

\* n || d for a number n: NaN and 0 are falsy
OrNum(n, d) == IF IsNull(n) \/ Val(n) = 0 THEN d ELSE Val(n)

\* A timestamp value of a row: null, the empty string, a string Date cannot
\* parse, or an ISO timestamp string naming minute t.
RawNull  == [kind |-> "null",    t |-> 0]
RawEmpty == [kind |-> "empty",   t |-> 0]
RawBad   == [kind |-> "invalid", t |-> 0]
Iso(t)   == [kind |-> "iso",     t |-> t]

parseDate(val) ==
    IF val.kind \in {"null", "empty"} THEN Null
    ELSE IF val.kind = "invalid" THEN Null
    ELSE Some(val.t)

DEFAULT_BLOCK_MIN == 60

-----------------------------------------------------------------------------
(* buildFlightsFromRows *)

\* a || b || c || null for nullable Dates (a Date object is always truthy)
FirstDate(a, b, c) ==
    IF ~IsNull(a) THEN a ELSE IF ~IsNull(b) THEN b ELSE c

S_UNKNOWN == <<"U","N","K","N","O","W","N">>

\* The variant that lets the estimate win over the actual time
barTimes_estimateFirst(row) ==
    LET stdEst    == parseDate(row.std_nz)
        staEst    == parseDate(row.sta_nz)
        stdSched  == parseDate(row.std_sched_nz)
        staSched  == parseDate(row.sta_sched_nz)
        depActual == parseDate(row.dep_actual_nz)
        arrActual == parseDate(row.arr_actual_nz)
        block     == OrNum(parseInt(OrStr(row.block_mins, <<"0">>)), DEFAULT_BLOCK_MIN)
        barStart  == FirstDate(stdEst, depActual, stdSched)
        barEnd0   == FirstDate(staEst, arrActual, staSched)
        barEnd    == IF IsNull(barEnd0) /\ ~IsNull(barStart)
                     THEN Some(Val(barStart) + block)
                     ELSE barEnd0
    IN  [barStart |-> barStart, barEnd |-> barEnd, block |-> block]

\* The variant without the default block: parseInt(...) alone
barTimes_noDefaultBlock(row) ==
    LET stdEst    == parseDate(row.std_nz)
        staEst    == parseDate(row.sta_nz)
        stdSched  == parseDate(row.std_sched_nz)
        staSched  == parseDate(row.sta_sched_nz)
        depActual == parseDate(row.dep_actual_nz)
        arrActual == parseDate(row.arr_actual_nz)
        block     == OrNum(parseInt(OrStr(row.block_mins, <<"0">>)), 0)
        barStart  == FirstDate(depActual, stdEst, stdSched)
        barEnd0   == FirstDate(arrActual, staEst, staSched)
        barEnd    == IF IsNull(barEnd0) /\ ~IsNull(barStart)
                     THEN Some(Val(barStart) + block)
                     ELSE barEnd0
    IN  [barStart |-> barStart, barEnd |-> barEnd, block |-> block]

\* block, barStart and barEnd of one row (lines 259-279)
barTimes(row) ==
    LET stdEst    == parseDate(row.std_nz)
        staEst    == parseDate(row.sta_nz)
        stdSched  == parseDate(row.std_sched_nz)
        staSched  == parseDate(row.sta_sched_nz)
        depActual == parseDate(row.dep_actual_nz)
        arrActual == parseDate(row.arr_actual_nz)
        block     == OrNum(parseInt(OrStr(row.block_mins, <<"0">>)), DEFAULT_BLOCK_MIN)
        barStart  == FirstDate(depActual, stdEst, stdSched)
        barEnd0   == FirstDate(arrActual, staEst, staSched)
        barEnd    == IF IsNull(barEnd0) /\ ~IsNull(barStart)
                     THEN Some(Val(barStart) + block)
                     ELSE barEnd0
    IN  [barStart |-> barStart, barEnd |-> barEnd, block |-> block]

\* The flight object the map callback returns for row at index idx (0-based)
buildFlight(row, idx) ==
    LET bt         == barTimes(row)
        flightFull == trim(OrStr(row.flight_number, <<>>))
        designator == toUpperCase(trim(OrStr(row.designator, <<>>)))
        numeric    == IF designator /= <<>> /\ startsWith(toUpperCase(flightFull), designator)
                      THEN SubSeq(flightFull, Len(designator) + 1, Len(flightFull))
                      ELSE flightFull
    IN  [ id               |-> idx,
          reg              |-> trim(toUpperCase(OrStr(row.reg, S_UNKNOWN))),
          dep              |-> toUpperCase(OrStr(row.dep, <<>>)),
          ades             |-> toUpperCase(OrStr(row.ades, <<>>)),
          stdEst           |-> bt.barStart,
          staEst           |-> bt.barEnd,
          stdSched         |-> parseDate(row.std_sched_nz),
          staSched         |-> parseDate(row.sta_sched_nz),
          depActual        |-> parseDate(row.dep_actual_nz),
          arrActual        |-> parseDate(row.arr_actual_nz),
          designator       |-> designator,
          flightFull       |-> flightFull,
          flightNumeric    |-> numeric,
          apgPlanId        |-> OrStr(row.apg_plan_id, <<>>),
          blockMins        |-> bt.block,
          statusRaw        |-> OrStr(row.flight_status, <<>>),
          statusNorm       |-> normaliseStatus(row.flight_status),
          paxTotal         |-> OrNum(parseInt(OrStr(row.pax_count, <<"0">>)), 0),
          paxList          |-> row.pax_list,
          aircraftType     |-> OrStr(row.aircraft_type, <<>>),
          envisionFlightId |-> IF IsNull(row.envision_flight_id)
                                  \/ Val(row.envision_flight_id) = <<>>
                               THEN Null ELSE row.envision_flight_id,
          delays           |-> row.delays ]

\* The variant whose filter tests the end only
buildFlightsFromRows_endOnly(rs) ==
    SelectSeq([i \in 1..Len(rs) |-> buildFlight(rs[i], i - 1)],
              LAMBDA f : ~IsNull(f.staEst))

\* rows.map(...).filter(f => f.stdEst && f.staEst)
buildFlightsFromRows(rs) ==
    SelectSeq([i \in 1..Len(rs) |-> buildFlight(rs[i], i - 1)],
              LAMBDA f : ~IsNull(f.stdEst) /\ ~IsNull(f.staEst))

-----------------------------------------------------------------------------
(* The time resolver applied to one row: every combination of present,     *)
(* absent and unparseable timestamps and of block-minutes texts            *)

\* block_mins texts: absent, "", "0", "45", "-30", "abc", "90m", " 75"
BlockInputs ==
    { Null, Some(<<>>), Some(<<"0">>), Some(<<"4","5">>), Some(<<"-","3","0">>),
      Some(<<"a","b","c">>), Some(<<"9","0","m">>), Some(<<" ","7","5">>) }

BaseRow ==
    [ reg |-> Some(<<"z","k","-","c","i","t">>), dep |-> Some(<<"A","K","L">>), ades |-> Some(<<"W","L","G">>),
      std_nz |-> RawNull, sta_nz |-> RawNull,
      std_sched_nz |-> RawNull, sta_sched_nz |-> RawNull,
      dep_actual_nz |-> RawNull, arr_actual_nz |-> RawNull,
      flight_number |-> Some(<<"3","C","7","0","1">>), designator |-> Some(<<"3","c">>),
      apg_plan_id |-> Some(<<"7">>), block_mins |-> Null,
      aircraft_type |-> Some(<<"A","T","R","7","2">>), flight_status |-> Some(<<"O","f","f"," ","B","l","o","c","k","s">>),
      pax_count |-> Some(<<"1","2">>), pax_list |-> <<>>,
      envision_flight_id |-> Some(<<"4","2">>), delays |-> <<>> ]

\* Scheduled 10:00-11:40, estimated 10:10-11:30, actual off 10:25 or 11:45,
\* actual on 11:20 (minutes of the day)
ResolveRows ==
    { [BaseRow EXCEPT !.std_sched_nz = ss, !.sta_sched_nz = sa,
                      !.std_nz = es, !.sta_nz = ea,
                      !.dep_actual_nz = as, !.arr_actual_nz = aa,
                      !.block_mins = b] :
        ss \in {RawNull, RawBad, Iso(600)},
        sa \in {RawNull, RawBad, Iso(700)},
        es \in {RawNull, RawBad, Iso(610)},
        ea \in {RawNull, RawBad, Iso(690)},
        as \in {RawNull, RawEmpty, RawBad, Iso(625), Iso(705)},
        aa \in {RawNull, RawBad, Iso(680)},
        b  \in BlockInputs }

InitBuild ==
    /\ rows \in {<<r>> : r \in ResolveRows}
    /\ newFlights = <<>>
    /\ pc = "input"
    /\ status = Null
    /\ statusNorm = Null
    /\ GanttIdle
    /\ PaxIdle
    /\ SeatIdle
    /\ EditIdle

\* const newFlights = buildFlightsFromRows(data.results)
BuildFlights ==
    /\ pc = "input"
    /\ newFlights' = buildFlightsFromRows(rows)
    /\ pc' = "done"
    /\ UNCHANGED <<rows, statusVars, ganttVars, paxVars, seatVars, editVars, crewVars, actionVars>>

NextBuild == BuildFlights

SpecBuild == InitBuild /\ [][NextBuild]_vars

-----------------------------------------------------------------------------
(* Ordering of strings and sorting *)

\* The characters of the model in code-unit order
CharOrder == <<" ", "-">> \o DigitChars \o UpperChars \o LowerChars

CharCodeOf == [c \in {CharOrder[i] : i \in 1..Len(CharOrder)} |->
                  CHOOSE i \in 1..Len(CharOrder) : CharOrder[i] = c]

CharCode(c) == CharCodeOf[c]

\* a < b as Array.prototype.sort() orders strings by default
RECURSIVE LessStr(_, _)
LessStr(a, b) ==
    IF b = <<>> THEN FALSE
    ELSE IF a = <<>> THEN TRUE
    ELSE IF Head(a) = Head(b) THEN LessStr(Tail(a), Tail(b))
    ELSE CharCode(Head(a)) < CharCode(Head(b))

\* Object.keys(byReg).sort()
RECURSIVE SortStrings(_)
SortStrings(K) ==
    IF K = {} THEN <<>>
    ELSE LET m == CHOOSE x \in K : \A y \in K \ {x} : LessStr(x, y)
         IN  <<m>> \o SortStrings(K \ {m})

\* f put into the sorted sequence fs after every flight not later than it
RECURSIVE InsertByStd(_, _)
InsertByStd(fs, f) ==
    IF fs = <<>> THEN <<f>>
    ELSE IF Val(f.stdEst) < Val(Head(fs).stdEst) THEN <<f>> \o fs
    ELSE <<Head(fs)>> \o InsertByStd(Tail(fs), f)

\* fs.slice().sort((a, b) => a.stdEst - b.stdEst): a stable sort
\* The variant that leaves the group in the order of the flight list
SortByStd_listOrder(fs) == fs

RECURSIVE SortByStd(_)
SortByStd(fs) ==
    IF fs = <<>> THEN <<>>
    ELSE InsertByStd(SortByStd(SubSeq(fs, 1, Len(fs) - 1)), fs[Len(fs)])

-----------------------------------------------------------------------------
(* renderGanttFromFlights, renderRowsForBase *)

\* Base -> ICAO mapping
BASE_ICAO ==
    [ AKL |-> <<"N","Z","A","A">>, WLG |-> <<"N","Z","W","N">>, CHC |-> <<"N","Z","C","H">>,
      PPQ |-> <<"N","Z","P","P">>, WHK |-> <<"N","Z","W","K">>, WAG |-> <<"N","Z","W","U">>,
      CHT |-> <<"N","Z","C","I">>, ZQN |-> <<"N","Z","Q","N">>, BHE |-> <<"N","Z","W","B">> ]

MinOfSet(S) == CHOOSE x \in S : \A y \in S : x <= y

MaxOfSet(S) == CHOOSE x \in S : \A y \in S : x >= y

\* f.reg || "UNKNOWN"
RegKey(f) == IF f.reg = <<>> THEN S_UNKNOWN ELSE f.reg

\* The grouping (lines 410-416): each registration with its flights in the
\* order of the flight list
GroupByReg(fs) ==
    [k \in {RegKey(fs[i]) : i \in 1..Len(fs)} |->
        SelectSeq(fs, LAMBDA f : RegKey(f) = k)]

\* The ticks (lines 394-408): from the window start with its minutes zeroed,
\* one every hour while t <= chartEnd
RECURSIVE TicksFrom(_, _)
TicksFrom(tk, ce) ==
    IF tk <= ce THEN <<tk>> \o TicksFrom(tk + 60, ce) ELSE <<>>

AxisTicks(cs, ce) == TicksFrom(cs - (cs % 60), ce)

\* The variant that looks at the departure station only
HasBaseFlight_depOnly(fs, base) ==
    LET baseIcao == IF Str(base) \in DOMAIN BASE_ICAO
                    THEN Some(BASE_ICAO[Str(base)]) ELSE Null
    IN  \E i \in 1..Len(fs) :
            LET dep == toUpperCase(fs[i].dep)
            IN  dep = base \/ (~IsNull(baseIcao) /\ dep = Val(baseIcao))

\* Does lane fs have a flight from or to the base (lines 437-444)
HasBaseFlight(fs, base) ==
    LET baseIcao == IF Str(base) \in DOMAIN BASE_ICAO
                    THEN Some(BASE_ICAO[Str(base)]) ELSE Null
    IN  \E i \in 1..Len(fs) :
            LET dep  == toUpperCase(fs[i].dep)
                ades == toUpperCase(fs[i].ades)
            IN  \/ dep = base
                \/ ades = base
                \/ (~IsNull(baseIcao)
                    /\ (dep = Val(baseIcao) \/ ades = Val(baseIcao)))

\* The lanes renderRowsForBase(baseCode) emits from regs and byReg
renderRowsForBase(rg, br, baseCode) ==
    LET base  == toUpperCase(baseCode)
        lane(reg) == [reg |-> reg, bars |-> SortByStd(br[reg])]
        all   == [i \in 1..Len(rg) |-> lane(rg[i])]
    IN  SelectSeq(all, LAMBDA l : base = <<>> \/ HasBaseFlight(l.bars, base))

\* The time window (lines 381-390): the earliest start and the latest end
\* among the flights that have one, each widened by 60 minutes
ChartWindow(fs) ==
    LET starts == {Val(fs[i].stdEst) : i \in {k \in 1..Len(fs) : ~IsNull(fs[k].stdEst)}}
        ends   == {Val(fs[i].staEst) : i \in {k \in 1..Len(fs) : ~IsNull(fs[k].staEst)}}
    IN  [start |-> MinOfSet(starts) - 60, end |-> MaxOfSet(ends) + 60]

\* The variant that leaves the grouping alone when there is no flight
renderGanttFromFlights_keepGrouping(newFl) ==
    /\ flights' = newFl
    /\ IF newFl = <<>>
       THEN /\ lanes' = <<>>
            /\ axis' = <<>>
            /\ UNCHANGED <<byReg, regs, chartStart, chartEnd, durationMs>>
       ELSE LET w  == ChartWindow(newFl)
                br == GroupByReg(newFl)
                rg == SortStrings(DOMAIN br)
            IN  /\ chartStart' = Some(w.start)
                /\ chartEnd' = Some(w.end)
                /\ durationMs' = w.end - w.start
                /\ axis' = AxisTicks(w.start, w.end)
                /\ byReg' = br
                /\ regs' = rg
                /\ lanes' = renderRowsForBase(rg, br, baseFilter)

\* renderGanttFromFlights(newFlights): the whole function, with the
\* renderRowsForBase it ends with
renderGanttFromFlights(newFl) ==
    /\ flights' = newFl
    /\ IF newFl = <<>>
       THEN /\ lanes' = <<>>
            /\ axis' = <<>>
            /\ byReg' = <<>>
            /\ regs' = <<>>
            /\ UNCHANGED <<chartStart, chartEnd, durationMs>>
       ELSE LET w  == ChartWindow(newFl)
                br == GroupByReg(newFl)
                rg == SortStrings(DOMAIN br)
            IN  /\ chartStart' = Some(w.start)
                /\ chartEnd' = Some(w.end)
                /\ durationMs' = w.end - w.start
                /\ axis' = AxisTicks(w.start, w.end)
                /\ byReg' = br
                /\ regs' = rg
                /\ lanes' = renderRowsForBase(rg, br, baseFilter)

-----------------------------------------------------------------------------
(* The flight data source *)

(* The rows of one day, times in minutes of that day *)

\* ZK-CIT AKL-WLG, scheduled 08:00-09:30 only
Row701 ==
    [ reg |-> Some(<<"z","k","-","c","i","t">>), dep |-> Some(<<"A","K","L">>), ades |-> Some(<<"W","L","G">>),
      std_sched_nz |-> Iso(480), sta_sched_nz |-> Iso(570), std_nz |-> RawNull, sta_nz |-> RawNull,
      dep_actual_nz |-> RawNull, arr_actual_nz |-> RawNull,
      flight_number |-> Some(<<"3","C","7","0","1">>), designator |-> Some(<<"3","C">>), apg_plan_id |-> Some(<<"7">>),
      block_mins |-> Null, aircraft_type |-> Some(<<"A","T","R","7","2">>), flight_status |-> Some(<<"L","a","n","d","e","d">>),
      pax_count |-> Some(<<"1","2">>), pax_list |-> <<>>, envision_flight_id |-> Some(<<"4","1">>),
      delays |-> <<>> ]

\* ZK-CIZ WLG-CHC, scheduled 09:00-11:00 only
Row702 ==
    [ reg |-> Some(<<"Z","K","-","C","I","Z">>), dep |-> Some(<<"W","L","G">>), ades |-> Some(<<"C","H","C">>),
      std_sched_nz |-> Iso(540), sta_sched_nz |-> Iso(660), std_nz |-> RawNull, sta_nz |-> RawNull,
      dep_actual_nz |-> RawNull, arr_actual_nz |-> RawNull,
      flight_number |-> Some(<<"3","C","7","0","2">>), designator |-> Some(<<"3","C">>), apg_plan_id |-> Some(<<"7">>),
      block_mins |-> Some(<<"0">>), aircraft_type |-> Some(<<"A","T","R","7","2">>), flight_status |-> Some(<<"P","l","a","n","n","i","n","g">>),
      pax_count |-> Some(<<"1","2">>), pax_list |-> <<>>, envision_flight_id |-> Null,
      delays |-> <<>> ]

\* ZK-CIT WLG-AKL, scheduled 10:15-11:40, estimated and actual departure, no actual arrival
Row703 ==
    [ reg |-> Some(<<"Z","K","-","C","I","T">>), dep |-> Some(<<"w","l","g">>), ades |-> Some(<<"a","k","l">>),
      std_sched_nz |-> Iso(615), sta_sched_nz |-> Iso(700), std_nz |-> Iso(620), sta_nz |-> RawNull,
      dep_actual_nz |-> Iso(625), arr_actual_nz |-> RawNull,
      flight_number |-> Some(<<"3","C","7","0","3">>), designator |-> Some(<<"3","C">>), apg_plan_id |-> Some(<<"7">>),
      block_mins |-> Some(<<"8","5">>), aircraft_type |-> Some(<<"A","T","R","7","2">>), flight_status |-> Some(<<"O","f","f"," ","B","l","o","c","k","s">>),
      pax_count |-> Some(<<"1","2">>), pax_list |-> <<>>, envision_flight_id |-> Some(<<"4","3">>),
      delays |-> <<>> ]

\* ZK-MCO CHC-AKL with an estimated arrival only: no start can be resolved
Row704 ==
    [ reg |-> Some(<<"Z","K","-","M","C","O">>), dep |-> Some(<<"C","H","C">>), ades |-> Some(<<"A","K","L">>),
      std_sched_nz |-> RawNull, sta_sched_nz |-> RawBad, std_nz |-> RawNull, sta_nz |-> Iso(720),
      dep_actual_nz |-> RawNull, arr_actual_nz |-> RawNull,
      flight_number |-> Some(<<"3","C","7","0","4">>), designator |-> Some(<<"3","C">>), apg_plan_id |-> Some(<<"7">>),
      block_mins |-> Some(<<"4","5">>), aircraft_type |-> Some(<<"A","T","R","7","2">>), flight_status |-> Null,
      pax_count |-> Some(<<"1","2">>), pax_list |-> <<>>, envision_flight_id |-> Null,
      delays |-> <<>> ]

\* ZK-MCO NZCH-NZQN, estimated departure 10:50 only, block "45m"
Row705 ==
    [ reg |-> Some(<<"Z","K","-","M","C","O">>), dep |-> Some(<<"N","Z","C","H">>), ades |-> Some(<<"N","Z","Q","N">>),
      std_sched_nz |-> RawNull, sta_sched_nz |-> RawNull, std_nz |-> Iso(650), sta_nz |-> RawNull,
      dep_actual_nz |-> RawNull, arr_actual_nz |-> RawNull,
      flight_number |-> Some(<<"7","0","5">>), designator |-> Some(<<"3","C">>), apg_plan_id |-> Some(<<"7">>),
      block_mins |-> Some(<<"4","5","m">>), aircraft_type |-> Some(<<"A","T","R","7","2">>), flight_status |-> Some(<<"D","i","v","e","r","t","e","d">>),
      pax_count |-> Some(<<"1","2">>), pax_list |-> <<>>, envision_flight_id |-> Some(<<"4","5">>),
      delays |-> <<>> ]

\* ZK-CIZ WLG-CHC, scheduled arrival 11:40 and an actual departure at 15:00
Row706 ==
    [ reg |-> Some(<<"Z","K","-","C","I","Z">>), dep |-> Some(<<"W","L","G">>), ades |-> Some(<<"C","H","C">>),
      std_sched_nz |-> RawNull, sta_sched_nz |-> Iso(700), std_nz |-> RawNull, sta_nz |-> RawNull,
      dep_actual_nz |-> Iso(900), arr_actual_nz |-> RawNull,
      flight_number |-> Some(<<"3","C","7","0","6">>), designator |-> Some(<<"3","C">>), apg_plan_id |-> Null,
      block_mins |-> Some(<<"8","5">>), aircraft_type |-> Some(<<"A","T","R","7","2">>), flight_status |-> Some(<<"T","a","k","e"," ","O","f","f">>),
      pax_count |-> Null, pax_list |-> <<>>, envision_flight_id |-> Null,
      delays |-> <<>> ]

\* The days the operator loads; "" is the date input left empty, which the
\* data source answers with the rows of day d1
Days == {"d1", "d2"}

DayOffset(d) == IF d = "d2" THEN 1440 ELSE 0

ShiftRaw(v, k) == IF v.kind = "iso" THEN Iso(v.t + k) ELSE v

RowOnDay(r, d) ==
    [r EXCEPT !.std_sched_nz = ShiftRaw(@, DayOffset(d)),
              !.sta_sched_nz = ShiftRaw(@, DayOffset(d)),
              !.std_nz = ShiftRaw(@, DayOffset(d)),
              !.sta_nz = ShiftRaw(@, DayOffset(d)),
              !.dep_actual_nz = ShiftRaw(@, DayOffset(d)),
              !.arr_actual_nz = ShiftRaw(@, DayOffset(d))]

\* What the data source answers for a day: no row, or one of three row lists
DayResults ==
    { <<>>, <<Row703, Row704, Row701>>, <<Row702, Row705, Row701>>, <<Row703, Row706>> }

ResultsFor(d) ==
    {[i \in 1..Len(rs) |-> RowOnDay(rs[i], d)] : rs \in DayResults}

MaxPending == 2

-----------------------------------------------------------------------------
(* refreshGantt and the handlers that call it *)

\* refreshGantt({manual}) up to the fetch: the overlay and the request
refreshGantt(manual) ==
    /\ Len(pending) < MaxPending
    /\ IF manual THEN loading' = TRUE ELSE UNCHANGED loading
    /\ pending' = Append(pending, [manual |-> manual, dayStr |-> dateInput])

RemoveAt(s, i) == SubSeq(s, 1, i - 1) \o SubSeq(s, i + 1, Len(s))

\* The page after renderGanttFromFlights(buildFlightsFromRows(rows)) with no
\* earlier window
Rendered ==
    /\ flights = buildFlightsFromRows(rows)
    /\ byReg = GroupByReg(flights)
    /\ regs = SortStrings(DOMAIN byReg)
    /\ lanes = renderRowsForBase(regs, byReg, baseFilter)
    /\ IF flights = <<>>
       THEN chartStart = Null /\ chartEnd = Null /\ durationMs = 0 /\ axis = <<>>
       ELSE LET w == ChartWindow(flights)
            IN  /\ chartStart = Some(w.start) /\ chartEnd = Some(w.end)
                /\ durationMs = w.end - w.start
                /\ axis = AxisTicks(w.start, w.end)

\* The page as the script leaves it: flights built from the rows in the DOM,
\* the initial manual refresh dispatched
InitGantt ==
    /\ dateInput \in Days
    /\ baseFilter = <<>>
    /\ rows \in ResultsFor(dateInput)
    /\ Rendered
    /\ loading = TRUE
    /\ loadedDate = Some(dateInput)
    /\ pending = <<[manual |-> TRUE, dayStr |-> dateInput]>>
    /\ newFlights = <<>>
    /\ pc = "page"
    /\ status = Null
    /\ statusNorm = Null
    /\ PaxIdle
    /\ SeatIdle
    /\ EditIdle

\* The date input's change handler: the operator picks a date or clears it
DateChange(d) ==
    /\ dateInput' = d
    /\ Len(pending) < MaxPending
    /\ loading' = TRUE
    /\ pending' = Append(pending, [manual |-> TRUE, dayStr |-> d])
    /\ UNCHANGED <<flights, chartStart, chartEnd, durationMs, byReg, regs,
                   axis, lanes, baseFilter, loadedDate>>
    /\ UNCHANGED <<statusVars, buildVars, pc, paxVars, seatVars, editVars, crewVars, actionVars>>

\* The date form's submit handler
DateSubmit ==
    /\ refreshGantt(TRUE)
    /\ UNCHANGED <<flights, chartStart, chartEnd, durationMs, byReg, regs,
                   axis, lanes, baseFilter, dateInput, loadedDate>>
    /\ UNCHANGED <<statusVars, buildVars, pc, paxVars, seatVars, editVars, crewVars, actionVars>>

\* The setInterval callback: a silent refresh
AutoRefresh ==
    /\ refreshGantt(FALSE)
    /\ UNCHANGED <<flights, chartStart, chartEnd, durationMs, byReg, regs,
                   axis, lanes, baseFilter, dateInput, loadedDate>>
    /\ UNCHANGED <<statusVars, buildVars, pc, paxVars, seatVars, editVars, crewVars, actionVars>>

\* The fetch of pending[i] answers {ok: true, results}: the .then callback
\* and the .finally callback
RefreshOk(i) ==
    /\ i \in 1..Len(pending)
    /\ \E results \in ResultsFor(pending[i].dayStr) :
          /\ rows' = results
          /\ renderGanttFromFlights(buildFlightsFromRows(results))
    /\ loadedDate' = IF pending[i].manual /\ pending[i].dayStr /= ""
                     THEN Some(pending[i].dayStr) ELSE loadedDate
    /\ loading' = IF pending[i].manual THEN FALSE ELSE loading
    /\ pending' = RemoveAt(pending, i)
    /\ UNCHANGED <<baseFilter, dateInput, newFlights, statusVars, pc, paxVars, seatVars, editVars, crewVars, actionVars>>

\* The fetch of pending[i] answers without ok or without a results array,
\* or fails (network, body that is not JSON): nothing is rendered
RefreshFail(i) ==
    /\ i \in 1..Len(pending)
    /\ loading' = IF pending[i].manual THEN FALSE ELSE loading
    /\ pending' = RemoveAt(pending, i)
    /\ UNCHANGED <<flights, chartStart, chartEnd, durationMs, byReg, regs,
                   axis, lanes, baseFilter, dateInput, loadedDate>>
    /\ UNCHANGED <<statusVars, buildVars, pc, paxVars, seatVars, editVars, crewVars, actionVars>>

\* The station filter the select offers: none and two IATA bases
BaseCodes == {<<>>, <<"C","H","C">>, <<"Z","Q","N">>}

\* The #base-filter change handler
BaseFilterChange(b) ==
    /\ baseFilter' = b
    /\ lanes' = renderRowsForBase(regs, byReg, b)
    /\ UNCHANGED <<flights, chartStart, chartEnd, durationMs, byReg, regs,
                   axis, dateInput, loading, loadedDate, pending>>
    /\ UNCHANGED <<statusVars, buildVars, pc, paxVars, seatVars, editVars, crewVars, actionVars>>

NextGantt ==
    \/ \E d \in Days \cup {""} : DateChange(d)
    \/ DateSubmit
    \/ AutoRefresh
    \/ \E i \in 1..MaxPending : RefreshOk(i)
    \/ \E i \in 1..MaxPending : RefreshFail(i)
    \/ \E b \in BaseCodes : BaseFilterChange(b)

SpecGantt == InitGantt /\ [][NextGantt]_vars

-----------------------------------------------------------------------------
(* classifyPaxStatus *)

\* The status fields of a passenger record, in the order they are tried
StatusAliases ==
    <<"DCSStatus", "DcsStatus", "Status", "status",
      "CheckInStatus", "checkInStatus", "BoardingStatus", "boardingStatus">>

\* a || b || ... || "": the first field that is neither absent nor ""
RECURSIVE FirstTruthy(_, _)
FirstTruthy(p, names) ==
    IF names = <<>> THEN <<>>
    ELSE IF ~IsNull(p[Head(names)]) /\ Val(p[Head(names)]) /= <<>>
         THEN Val(p[Head(names)])
         ELSE FirstTruthy(p, Tail(names))

\* A flag field is absent, true, false, or a truthy value that is not true
IsTrue(v) == v = "true"

T_FLOWN == <<"F","L","O","W","N">>
T_FLWN  == <<"F","L","W","N">>
T_BOARD == <<"B","O","A","R","D">>
T_CHECK == <<"C","H","E","C","K">>

\* The variant that consults the boarded and checked-in flags first
classifyPaxStatus_flagsFirst(p) ==
    LET raw == toUpperCase(FirstTruthy(p, StatusAliases))
        explicitFlown == IsTrue(p.Flown) \/ IsTrue(p.flown)
    IN  IF IsTrue(p.Boarded) \/ IsTrue(p.boarded) THEN "BOARDED"
        ELSE IF IsTrue(p.CheckedIn) \/ IsTrue(p.checkedIn) THEN "CHECKED"
        ELSE IF explicitFlown \/ includes(raw, T_FLOWN) \/ raw = T_FLWN THEN "FLOWN"
        ELSE IF raw = <<>> THEN "BOOKED"
        ELSE IF includes(raw, T_BOARD) THEN "BOARDED"
        ELSE IF includes(raw, T_CHECK) THEN "CHECKED"
        ELSE IF raw \in {<<"C","I">>, <<"C","K","I","N">>, <<"C","K","I">>} THEN "CHECKED"
        ELSE IF raw \in {<<"B","D">>, <<"B","R","D">>} THEN "BOARDED"
        ELSE "BOOKED"

classifyPaxStatus(p) ==
    LET raw == toUpperCase(FirstTruthy(p, StatusAliases))
        explicitFlown == IsTrue(p.Flown) \/ IsTrue(p.flown)
    IN  IF explicitFlown \/ includes(raw, T_FLOWN) \/ raw = T_FLWN THEN "FLOWN"
        ELSE IF IsTrue(p.Boarded) \/ IsTrue(p.boarded) THEN "BOARDED"
        ELSE IF IsTrue(p.CheckedIn) \/ IsTrue(p.checkedIn) THEN "CHECKED"
        ELSE IF raw = <<>> THEN "BOOKED"
        ELSE IF includes(raw, T_FLOWN) \/ raw = T_FLWN THEN "FLOWN"
        ELSE IF includes(raw, T_BOARD) THEN "BOARDED"
        ELSE IF includes(raw, T_CHECK) THEN "CHECKED"
        ELSE IF raw \in {<<"C","I">>, <<"C","K","I","N">>, <<"C","K","I">>} THEN "CHECKED"
        ELSE IF raw \in {<<"B","D">>, <<"B","R","D">>} THEN "BOARDED"
        ELSE "BOOKED"

\* Status texts of passenger records
PaxTexts ==
    { <<>>, <<"B","O","O","K","E","D">>, <<"F","l","o","w","n">>, <<"B","O","A","R","D","E","D"," ","F","L","O","W","N">>,
      <<"F","L","W","N">>, <<"X","F","L","W","N">>, <<"B","o","a","r","d","e","d">>, <<"C","h","e","c","k","e","d"," ","I","n">>,
      <<"c","i">>, <<"C","K","I","N">>, <<"C","K","I">>, <<"B","D">>, <<"B","R","D">>, <<"N","O","S","H","O","W">> }

NoStatus == [a \in {StatusAliases[i] : i \in 1..8} |-> Null]

\* Passenger records: one status field carries a text (or none does), the
\* last alias may carry BOARDED as well, and every combination of the flags
PaxInputs ==
    { [ DCSStatus |-> st.DCSStatus, DcsStatus |-> st.DcsStatus,
        Status |-> st.Status, status |-> st.status,
        CheckInStatus |-> st.CheckInStatus, checkInStatus |-> st.checkInStatus,
        BoardingStatus |-> st.BoardingStatus,
        boardingStatus |-> IF later /\ IsNull(st.boardingStatus)
                           THEN Some(<<"B","O","A","R","D","E","D">>) ELSE st.boardingStatus,
        Flown |-> fl[1], flown |-> fl[2], Boarded |-> fl[3],
        boarded |-> fl[4], CheckedIn |-> fl[5], checkedIn |-> fl[6] ] :
        st \in {[NoStatus EXCEPT ![StatusAliases[k]] = Some(txt)] :
                   k \in 1..8, txt \in PaxTexts},
        later \in BOOLEAN,
        fl \in {"absent", "true", "truthy"} \X {"absent", "true"}
               \X {"absent", "true", "false"} \X {"absent", "true"}
               \X {"absent", "true"} \X {"absent", "true"} }

InitPax ==
    /\ pax \in {Some(p) : p \in PaxInputs}
    /\ paxStatus = Null
    /\ pc = "input"
    /\ status = Null
    /\ statusNorm = Null
    /\ rows = <<>>
    /\ newFlights = <<>>
    /\ GanttIdle
    /\ SeatIdle
    /\ EditIdle

\* const status = classifyPaxStatus(p)
ClassifyPax ==
    /\ pc = "input"
    /\ paxStatus' = Some(classifyPaxStatus(Val(pax)))
    /\ pc' = "done"
    /\ UNCHANGED <<pax, statusVars, buildVars, ganttVars, seatVars, editVars, crewVars, actionVars>>

NextPax == ClassifyPax

SpecPax == InitPax /\ [][NextPax]_vars

-----------------------------------------------------------------------------
(* Seat map: the class of a seat *)

SSR_SPECIAL ==
    { <<"C","K","I","N">>, <<"D","E","A","F">>, <<"P","E","T","C">>,
      <<"V","V","I","P">>, <<"U","N","Z","Z">>, <<"U","M","N","R">> }

\* (s.Code || s.code || "").toUpperCase()
SsrCode(s) == toUpperCase(OrStr(s.Code, OrStr(s.code, <<>>)))

\* ssrs is Null for a value that is not an array
hasUmnrSSR(ssrs) ==
    /\ ~IsNull(ssrs)
    /\ \E i \in 1..Len(Val(ssrs)) :
          SsrCode(Val(ssrs)[i]) \in {<<"U","M","N","R">>, <<"U","M">>}

hasWheelchairSSR(ssrs) ==
    /\ ~IsNull(ssrs)
    /\ \E i \in 1..Len(Val(ssrs)) : startsWith(SsrCode(Val(ssrs)[i]), <<"W","C">>)

hasSpecialSSR(ssrs) ==
    /\ ~IsNull(ssrs)
    /\ \E i \in 1..Len(Val(ssrs)) : SsrCode(Val(ssrs)[i]) \in SSR_SPECIAL

hasInfantSSR(ssrs) ==
    /\ ~IsNull(ssrs)
    /\ \E i \in 1..Len(Val(ssrs)) :
          SsrCode(Val(ssrs)[i]) \in {<<"I","N","F","T">>, <<"I","N","F">>}

\* getField(pax, ["Ssrs","SSRs","SpecialServiceRequests"], []): the first
\* alias that is present; an empty array is present
SsrsField(p) ==
    IF ~IsNull(p.Ssrs) THEN p.Ssrs
    ELSE IF ~IsNull(p.SSRs) THEN p.SSRs
    ELSE IF ~IsNull(p.SpecialServiceRequests) THEN p.SpecialServiceRequests
    ELSE Some(<<>>)

\* The variant that looks for the infant code first
SeatOf_infantFirst(p) ==
    LET ssrsForSeat == SsrsField(p)
        paxType     == toUpperCase(OrStr(p.PassengerType, OrStr(p.passengerType, <<>>)))
        isUmnr      == hasUmnrSSR(ssrsForSeat)
    IN  [ base  |-> IF hasInfantSSR(ssrsForSeat) THEN "seat-adult-infant"
                    ELSE IF isUmnr \/ paxType = <<"C","H">> \/ paxType = <<"C","H","D">>
                    THEN "seat-child"
                    ELSE "seat-adult",
          umnr  |-> isUmnr,
          icons |-> (IF isUmnr THEN <<"umnr">> ELSE <<>>)
                    \o (IF hasSpecialSSR(ssrsForSeat) THEN <<"special">> ELSE <<>>)
                    \o (IF hasWheelchairSSR(ssrsForSeat) THEN <<"wheelchair">> ELSE <<>>) ]

\* makeSeat for an occupied seat (lines 1383-1426): the base class, the
\* seat-umnr class and the icons
SeatOf(p) ==
    LET ssrsForSeat == SsrsField(p)
        paxType     == toUpperCase(OrStr(p.PassengerType, OrStr(p.passengerType, <<>>)))
        isUmnr      == hasUmnrSSR(ssrsForSeat)
    IN  [ base  |-> IF isUmnr \/ paxType = <<"C","H">> \/ paxType = <<"C","H","D">>
                    THEN "seat-child"
                    ELSE IF hasInfantSSR(ssrsForSeat) THEN "seat-adult-infant"
                    ELSE "seat-adult",
          umnr  |-> isUmnr,
          icons |-> (IF isUmnr THEN <<"umnr">> ELSE <<>>)
                    \o (IF hasSpecialSSR(ssrsForSeat) THEN <<"special">> ELSE <<>>)
                    \o (IF hasWheelchairSSR(ssrsForSeat) THEN <<"wheelchair">> ELSE <<>>) ]

EmptySeat == [base |-> "seat-empty", umnr |-> FALSE, icons |-> <<>>]

\* (p.Seat || p.SeatNumber || "").toString().toUpperCase()
SeatKey(p) == toUpperCase(OrStr(p.Seat, OrStr(p.SeatNumber, <<>>)))

\* paxBySeat (lines 1368-1372): a later passenger of the list replaces an
\* earlier one of the same seat; a passenger without a seat is left out
RECURSIVE paxBySeat(_)
paxBySeat(ps) ==
    IF ps = <<>> THEN <<>>
    ELSE LET before == paxBySeat(SubSeq(ps, 1, Len(ps) - 1))
             p      == ps[Len(ps)]
             seat   == SeatKey(p)
         IN  IF seat = <<>> THEN before
             ELSE [s \in DOMAIN before \cup {Str(seat)} |->
                      IF s = Str(seat) THEN p ELSE before[s]]

makeSeat(bySeat, seatCode) ==
    IF seatCode \in DOMAIN bySeat THEN SeatOf(bySeat[seatCode]) ELSE EmptySeat

\* The seats of row 1 that every layout has: columns A, B and C
SeatCells == {"1A", "1B", "1C"}

\* seatmapKeyForFlight (lines 1325-1346): the key of the layout, or null
seatmapKeyForFlight(f) ==
    LET t == toUpperCase(f.aircraftType)
        r == toUpperCase(f.reg)
        isSaab == \/ includes(t, <<"S","A","A","B">>)
                  \/ includes(t, <<"S","F","3">>)
                  \/ includes(t, <<"S","F","3","4">>)
                  \/ includes(t, <<"S","F","3","4","0">>)
                  \/ startsWith(r, <<"Z","K","-","C","I">>)
                  \/ startsWith(r, <<"Z","K","-","K","R">>)
    IN  IF includes(t, <<"A","T","R">>) \/ includes(r, <<"M","C","U">>) THEN Some("ATR72")
        ELSE IF isSaab
        THEN IF r = <<"Z","K","-","C","I","T">> THEN Some("SF3_CIT")
             ELSE IF r = <<"Z","K","-","C","I","Z">> THEN Some("SF3_CIZ")
             ELSE Some("SF3_STD")
        ELSE Null

\* The keys of seatmapConfigs (lines 1288-1323)
seatmapConfigs == {"SF3_STD", "SF3_CIZ", "SF3_CIT", "ATR72"}

\* buildSeatmapForFlight: without a layout the container stays empty and the
\* dialog says that no seat map is available
buildSeatmapForFlight(f, ps) ==
    LET key == seatmapKeyForFlight(f)
        bySeat == paxBySeat(ps)
    IN  IF IsNull(key) \/ Val(key) \notin seatmapConfigs
        THEN [key |-> Null, seats |-> <<>>]
        ELSE [key |-> key, seats |-> [s \in SeatCells |-> makeSeat(bySeat, s)]]

Ssr(c) == [Code |-> Some(c), code |-> Null]

SsrLower(c) == [Code |-> Null, code |-> Some(c)]

\* The service lists of the passengers
SsrLists ==
    { <<>>,
      <<Ssr(<<"U","M","N","R">>)>>,
      <<SsrLower(<<"u","m">>)>>,
      <<Ssr(<<"I","N","F","T">>)>>,
      <<Ssr(<<"W","C","H","R">>)>>,
      <<Ssr(<<"D","E","A","F">>)>>,
      <<Ssr(<<"W","C","H","R">>), Ssr(<<"U","M","N","R">>)>>,
      <<SsrLower(<<"i","n","f">>), Ssr(<<"C","K","I","N">>)>>,
      <<Ssr(<<"I","N","F","T">>), Ssr(<<"U","M","N","R">>)>>,
      <<Ssr(<<"W","C","H","C">>), Ssr(<<"I","N","F","T">>), Ssr(<<"V","V","I","P">>)>> }

PaxTypes == { <<>>, <<"A","D","T">>, <<"C","H","D">>, <<"c","h">> }

SeatTexts == { <<>>, <<"1","A">>, <<"1","a">>, <<"1","B">> }

\* Passengers: the service list under the first alias, or an
\* unaccompanied minor's under the second, or under none
SeatPaxInputs ==
    { [ Seat |-> Some(seat), SeatNumber |-> Null,
        Ssrs |-> a.Ssrs, SSRs |-> a.SSRs, SpecialServiceRequests |-> Null,
        PassengerType |-> Some(ty), passengerType |-> Null ] :
        seat \in SeatTexts, ty \in PaxTypes,
        a \in {[Ssrs |-> Some(l), SSRs |-> Null] : l \in SsrLists}
              \cup {[Ssrs |-> Null, SSRs |-> Some(<<Ssr(<<"U","M","N","R">>)>>)],
                    [Ssrs |-> Null, SSRs |-> Null]} }

\* The passengers that may follow in the list
OtherPax ==
    { p \in SeatPaxInputs :
        /\ ~IsNull(p.Ssrs)
        /\ \/ (p.Seat = Some(<<"1","a">>) /\ p.PassengerType = Some(<<"A","D","T">>)
                  /\ Val(p.Ssrs) = <<Ssr(<<"W","C","H","R">>)>>)
           \/ (p.Seat = Some(<<"1","A">>) /\ p.PassengerType = Some(<<"C","H","D">>)
                  /\ Val(p.Ssrs) = <<>>)
           \/ (p.Seat = Some(<<"1","B">>) /\ p.PassengerType = Some(<<>>)
                  /\ Val(p.Ssrs) = <<Ssr(<<"I","N","F","T">>), Ssr(<<"U","M","N","R">>)>>) }

MaxOtherPax == 1

\* The registration and the aircraft type text of the flight
SeatRegs ==
    { <<"Z","K","-","C","I","T">>, <<"Z","K","-","C","I","Z">>, <<"Z","K","-","C","I","A">>,
      <<"Z","K","-","K","R","A">>, <<"Z","K","-","M","C","U">>, <<"Z","K","-","M","V","A">>,
      <<"U","N","K","N","O","W","N">> }

SeatTypes ==
    { <<>>, <<"S","F","3","4","0">>, <<"S","a","a","b"," ","3","4","0">>,
      <<"A","T","R","7","2">>, <<"a","t","r">>, <<"B","1","9","0","0">> }

RECURSIVE OtherLists(_)
OtherLists(n) ==
    IF n = 0 THEN {<<>>}
    ELSE LET shorter == OtherLists(n - 1)
         IN  shorter \cup {Append(l, p) : l \in shorter, p \in OtherPax}

InitSeat ==
    /\ seatmapPax \in {<<>>} \cup {<<p>> \o l : p \in SeatPaxInputs, l \in OtherLists(MaxOtherPax)}
    /\ seatmapFlight \in {Some([reg |-> r, aircraftType |-> ty]) : r \in SeatRegs, ty \in SeatTypes}
    /\ seatmap = Null
    /\ pc = "input"
    /\ status = Null
    /\ statusNorm = Null
    /\ rows = <<>>
    /\ newFlights = <<>>
    /\ GanttIdle
    /\ PaxIdle
    /\ EditIdle

\* buildSeatmapForFlight(currentFlight)
BuildSeatmap ==
    /\ pc = "input"
    /\ seatmap' = Some(buildSeatmapForFlight(Val(seatmapFlight), seatmapPax))
    /\ pc' = "done"
    /\ UNCHANGED <<seatmapPax, seatmapFlight, statusVars, buildVars, ganttVars, paxVars, editVars, crewVars, actionVars>>

NextSeat == BuildSeatmap

SpecSeat == InitSeat /\ [][NextSeat]_vars

-----------------------------------------------------------------------------
(* Clock times and dates. A Date is the number of minutes since local
   midnight of day d1. *)

RECURSIVE NatStr(_)
NatStr(n) ==
    IF n < 10 THEN <<DigitChars[n + 1]>>
    ELSE NatStr(n \div 10) \o <<DigitChars[(n % 10) + 1]>>

\* String(n), n.toString()
NumStr(n) == IF n < 0 THEN <<"-">> \o NatStr(0 - n) ELSE NatStr(n)

\* String(n).padStart(2, "0")
pad(n) ==
    LET s == NumStr(n) IN IF Len(s) >= 2 THEN s ELSE <<"0">> \o s

\* a % b of JavaScript, b > 0: the sign of a
JsRem(a, b) == IF a >= 0 THEN a % b ELSE 0 - ((0 - a) % b)

\* s.split(sep), sep one character
RECURSIVE Split(_, _)
Split(s, sep) ==
    IF \A k \in 1..Len(s) : s[k] /= sep THEN <<s>>
    ELSE LET k == CHOOSE i \in 1..Len(s) : s[i] = sep /\ \A j \in 1..(i - 1) : s[j] /= sep
         IN  <<SubSeq(s, 1, k - 1)>> \o Split(SubSeq(s, k + 1, Len(s)), sep)

\* Number(s) of a text of digits; NaN for the other texts but the empty one
Number(s) ==
    IF s = <<>> THEN Some(0)
    ELSE IF \A k \in 1..Len(s) : IsDigit(s[k]) THEN Some(DigitsValue(s))
    ELSE Null

\* The local calendar days around day d1, the second entry being d1
Calendar ==
    << [y |-> 2025, mo |-> 1, d |-> 30], [y |-> 2025, mo |-> 1, d |-> 31],
       [y |-> 2025, mo |-> 2, d |-> 1],  [y |-> 2025, mo |-> 2, d |-> 2] >>

CalendarDay(d) == Calendar[(d \div 1440) + 2]

\* d.getHours(), d.getMinutes()
getHours(d) == (d % 1440) \div 60

getMinutes(d) == d % 60

\* d.setHours(h, mi, 0, 0): the same local day at h:mi
setHours(d, h, mi) == (d \div 1440) * 1440 + h * 60 + mi

formatDateYMD(d) ==
    IF IsNull(d) THEN <<>>
    ELSE LET c == CalendarDay(Val(d))
         IN  NumStr(c.y) \o <<"-">> \o pad(c.mo) \o <<"-">> \o pad(c.d)

\* toLocaleTimeString("en-NZ", 2-digit hour and minute, 24 h)
fmtTime(d) ==
    IF IsNull(d) THEN <<>>
    ELSE pad(getHours(Val(d))) \o <<":">> \o pad(getMinutes(Val(d)))

minutesBetween(t1, t2) ==
    IF IsNull(t1) \/ IsNull(t2) THEN 0 ELSE Val(t2) - Val(t1)

\* /^\d{1,2}:\d{2}$/.test(v)
IsHm(v) ==
    LET ps == Split(v, ":")
    IN  /\ Len(ps) = 2
        /\ Len(ps[1]) \in {1, 2} /\ Len(ps[2]) = 2
        /\ \A k \in 1..Len(ps[1]) : IsDigit(ps[1][k])
        /\ \A k \in 1..Len(ps[2]) : IsDigit(ps[2][k])

\* /^\d{4}-\d{2}-\d{2}$/.test(v)
IsYmd(v) ==
    LET ps == Split(v, "-")
    IN  /\ Len(ps) = 3
        /\ Len(ps[1]) = 4 /\ Len(ps[2]) = 2 /\ Len(ps[3]) = 2
        /\ \A i \in 1..3 : \A k \in 1..Len(ps[i]) : IsDigit(ps[i][k])

parseTimeToMinutes(hhmm) ==
    IF IsNull(hhmm) \/ Val(hhmm) = <<>> THEN Null
    ELSE LET ps == Split(Val(hhmm), ":")
             h  == Number(ps[1])
             m  == IF Len(ps) >= 2 THEN Number(ps[2]) ELSE Null
         IN  IF IsNull(h) \/ IsNull(m) THEN Null
             ELSE Some(Val(h) * 60 + Val(m))

datePlusMinutesToLocalIso(dateStr, minutes) ==
    IF IsNull(dateStr) \/ Val(dateStr) = <<>> \/ IsNull(minutes) THEN Null
    ELSE LET ps == Split(Val(dateStr), "-")
             y  == Val(Number(ps[1]))
             mo == Val(Number(ps[2]))
             d  == Val(Number(ps[3]))
             h  == Val(minutes) \div 60
             m  == JsRem(Val(minutes), 60)
         IN  Some(NumStr(y) \o <<"-">> \o pad(mo) \o <<"-">> \o pad(d)
                  \o <<"T">> \o pad(h) \o <<":">> \o pad(m))

-----------------------------------------------------------------------------
(* The delay ledger: collectDelaysFromModal, collectTimeModalPayload *)

\* Delay code metadata (IATA code -> Envision ID + description)
DELAY_CODE_META ==
    "81" :> [id |-> 7, description |-> "ATFM due to ATC en-route demand capacity"] @@
    "11" :> [id |-> 9, description |-> "Late check-in, acceptance after deadline"] @@
    "12" :> [id |-> 10, description |-> "Late check-in, congestion in check-in"] @@
    "15" :> [id |-> 14, description |-> "Boarding, discrepancies and paging, missing check-in passenger"] @@
    "16" :> [id |-> 16, description |-> "Commercial publicity/passenger convenience, illness/death, VIP, Press, TV"] @@
    "17" :> [id |-> 17, description |-> "Catering order, late or incorrect order given to supplier"] @@
    "18" :> [id |-> 18, description |-> "Baggage Processing, sorting etc"] @@
    "21" :> [id |-> 19, description |-> "Cargo documentation, errors"] @@
    "22" :> [id |-> 20, description |-> "Late positioning of Cargo"] @@
    "23" :> [id |-> 21, description |-> "Late acceptance of Cargo"] @@
    "24" :> [id |-> 22, description |-> "Inadequate cargo packing and/or quantity"] @@
    "25" :> [id |-> 23, description |-> "Oversells, cargo booking error"] @@
    "26" :> [id |-> 24, description |-> "Late cargo preparation in warehouse"] @@
    "27" :> [id |-> 25, description |-> "Mail documentation, errors"] @@
    "28" :> [id |-> 26, description |-> "Late mail positioning"] @@
    "31" :> [id |-> 27, description |-> "Aircraft documentation late/inaccurate (W&B, gen dec, pax manifest, etc.)"] @@
    "32" :> [id |-> 28, description |-> "Loading / Unloading, bulky/special load, lack of loading staff"] @@
    "33" :> [id |-> 29, description |-> "Loading equipment, lack of/or breakdown"] @@
    "34" :> [id |-> 30, description |-> "Servicing equipment, lack of/or breakdown, lack of staff (e.g. steps)"] @@
    "35" :> [id |-> 31, description |-> "Aircraft cleaning"] @@
    "36" :> [id |-> 32, description |-> "Fuelling / defueling"] @@
    "37" :> [id |-> 33, description |-> "Catering, late delivery or loading"] @@
    "38" :> [id |-> 34, description |-> "ULD, lack of or serviceability"] @@
    "39" :> [id |-> 35, description |-> "Technical equipment lack or breakdown"] @@
    "41" :> [id |-> 36, description |-> "Aircraft defects"] @@
    "42" :> [id |-> 37, description |-> "Scheduled maintenance, late release"] @@
    "43" :> [id |-> 38, description |-> "Non scheduled maintenance, extra checks / additional work"] @@
    "44" :> [id |-> 39, description |-> "Spares and maintenance equipment, lack of/or breakdown"] @@
    "45" :> [id |-> 40, description |-> "AOG spares, to be carried to another station"] @@
    "46" :> [id |-> 41, description |-> "Aircraft change for technical reasons within same fleet"] @@
    "47" :> [id |-> 44, description |-> "Stand-by aircraft, lack of planned stand-by aircraft for technical reasons"] @@
    "51" :> [id |-> 45, description |-> "Damage in flight ops (bird/lighting/turbulence/overweight landing/taxi collision)"] @@
    "52" :> [id |-> 46, description |-> "Damage during ground operations, collision (other than during taxi)"] @@
    "55" :> [id |-> 48, description |-> "Departure Control"] @@
    "56" :> [id |-> 49, description |-> "Cargo preparation / documentation"] @@
    "57" :> [id |-> 50, description |-> "Flight Plans"] @@
    "58" :> [id |-> 51, description |-> "Other automated systems"] @@
    "61" :> [id |-> 52, description |-> "Flight Plan, late completion / change, flight documentation"] @@
    "62" :> [id |-> 53, description |-> "Operational requirements, fuel / load alteration"] @@
    "63" :> [id |-> 56, description |-> "Late crew boarding / departure procedures (other than connection/stand-by)"] @@
    "71" :> [id |-> 62, description |-> "Departure station below aircraft operating limits"] @@
    "72" :> [id |-> 63, description |-> "Destination station below aircraft operating limits"] @@
    "73" :> [id |-> 64, description |-> "Alternate station below aircraft operating limits"] @@
    "74" :> [id |-> 65, description |-> "Enroute - strong headwind, rerouting, weather avoidance"] @@
    "75" :> [id |-> 66, description |-> "De-icing and de-snowing of aircraft"] @@
    "76" :> [id |-> 67, description |-> "Removal of snow, ice, water and sand from airport"] @@
    "77" :> [id |-> 68, description |-> "Ground handling impacted by adverse weather conditions"] @@
    "85" :> [id |-> 88, description |-> "Restrictions at departure airport (closure, unrest, noise abatement, etc.)"] @@
    "86" :> [id |-> 89, description |-> "Immigration, customs, health"] @@
    "87" :> [id |-> 90, description |-> "Airport facilities, stands, ramp congestion, lighting, buildings, gate limits"] @@
    "88" :> [id |-> 91, description |-> "Restrictions at destination airport, with or without ATFM"] @@
    "93" :> [id |-> 92, description |-> "Aircraft rotation, late arrival from previous sector"] @@
    "99" :> [id |-> 93, description |-> "Other reason, not matching any codes above"] @@
    "01" :> [id |-> 94, description |-> "Planned schedule deviation for regular flights"] @@
    "02" :> [id |-> 95, description |-> "Planned schedule deviation for charter flights"] @@
    "03" :> [id |-> 96, description |-> "Late bus"] @@
    "13" :> [id |-> 98, description |-> "Check-in error passenger and/or baggage"] @@
    "14" :> [id |-> 99, description |-> "Oversales booking error"] @@
    "29" :> [id |-> 101, description |-> "Late mail acceptance"] @@
    "48" :> [id |-> 102, description |-> "Scheduled cabin configuration/version adjustments"] @@
    "59" :> [id |-> 103, description |-> "Operational requirements; fuel or load alteration"] @@
    "60" :> [id |-> 104, description |-> "Late crew boarding or departure procedures"] @@
    "64" :> [id |-> 105, description |-> "Flight deck crew shortage/sickness/stand-by/FTL"] @@
    "65" :> [id |-> 106, description |-> "Flight deck crew special request (non-operational)"] @@
    "66" :> [id |-> 107, description |-> "Late cabin crew boarding/departure (not connections/stand-by)"] @@
    "82" :> [id |-> 108, description |-> "ATFM due to ATC staff/equipment en-route, industrial action, staff shortage"] @@
    "83" :> [id |-> 109, description |-> "ATFM due to restriction at destination airport"] @@
    "84" :> [id |-> 110, description |-> "ATFM due to weather at destination"] @@
    "89" :> [id |-> 111, description |-> "Restrictions at departure airport inc. ATS/start-up/pushback"] @@
    "91" :> [id |-> 112, description |-> "Load connection, awaiting from another flight"] @@
    "92" :> [id |-> 113, description |-> "Through check-in error passenger and baggage"] @@
    "94" :> [id |-> 114, description |-> "Cabin crew rotation awaiting cabin crew from another flight"] @@
    "95" :> [id |-> 115, description |-> "Crew rotation awaiting crew from another flight"] @@
    "96" :> [id |-> 116, description |-> "Ops control re-routing, diversion, a/c change (non-technical)"] @@
    "97" :> [id |-> 117, description |-> "Industrial action within own airline"] @@
    "98" :> [id |-> 118, description |-> "Industrial action outside own airline, excluding ATC"] @@
    "67" :> [id |-> 119, description |-> "Cabin crew shortage/sickness/stand-by/FTL"]

\* code.replace(/\D/g, "")
StripNonDigits(s) == SelectSeq(s, IsDigit)

\* The variant that looks the code up before it tests the minutes
DelayRowOutcome_codeFirst(tr, isArrival) ==
    LET code0  == trim(tr.code)
        mins   == parseInt(IF tr.mins = <<>> THEN <<"0">> ELSE tr.mins)
        remark == trim(tr.remark)
        code1  == StripNonDigits(code0)
        code   == IF Len(code1) = 1 THEN <<"0">> \o code1 ELSE code1
    IN  IF code0 = <<>> /\ (IsNull(mins) \/ Val(mins) = 0) THEN [kind |-> "skip"]
        ELSE IF code1 = <<>> THEN [kind |-> "skip"]
        ELSE IF Str(code) \notin DOMAIN DELAY_CODE_META
             THEN [kind |-> "unknown", code |-> code]
        ELSE IF IsNull(mins) \/ Val(mins) <= 0 THEN [kind |-> "skip"]
        ELSE [kind |-> "delay",
              entry |-> [ code         |-> code,
                          delayCodeId  |-> DELAY_CODE_META[Str(code)].id,
                          delayMinutes |-> Val(mins),
                          description  |-> DELAY_CODE_META[Str(code)].description,
                          remark       |-> remark,
                          isArrival    |-> isArrival ]]

\* The variant without the left-pad of a single digit
DelayRowOutcome_noPad(tr, isArrival) ==
    LET code0  == trim(tr.code)
        mins   == parseInt(IF tr.mins = <<>> THEN <<"0">> ELSE tr.mins)
        remark == trim(tr.remark)
        code   == StripNonDigits(code0)
        key    == IF Len(code) = 1 THEN <<"0">> \o code ELSE code
    IN  IF code0 = <<>> /\ (IsNull(mins) \/ Val(mins) = 0) THEN [kind |-> "skip"]
        ELSE IF code = <<>> THEN [kind |-> "skip"]
        ELSE IF IsNull(mins) \/ Val(mins) <= 0 THEN [kind |-> "skip"]
        ELSE IF Str(key) \notin DOMAIN DELAY_CODE_META
             THEN [kind |-> "unknown", code |-> code]
        ELSE [kind |-> "delay",
              entry |-> [ code         |-> code,
                          delayCodeId  |-> DELAY_CODE_META[Str(key)].id,
                          delayMinutes |-> Val(mins),
                          description  |-> DELAY_CODE_META[Str(key)].description,
                          remark       |-> remark,
                          isArrival    |-> isArrival ]]

\* What the forEach callback does with one row (lines 1589-1617): nothing,
\* a code added to unknownCodes, or an entry pushed to delays
DelayRowOutcome(tr, isArrival) ==
    LET code0  == trim(tr.code)
        mins   == parseInt(IF tr.mins = <<>> THEN <<"0">> ELSE tr.mins)
        remark == trim(tr.remark)
        code1  == StripNonDigits(code0)
        code   == IF Len(code1) = 1 THEN <<"0">> \o code1 ELSE code1
    IN  IF code0 = <<>> /\ (IsNull(mins) \/ Val(mins) = 0) THEN [kind |-> "skip"]
        ELSE IF code1 = <<>> THEN [kind |-> "skip"]
        ELSE IF IsNull(mins) \/ Val(mins) <= 0 THEN [kind |-> "skip"]
        ELSE IF Str(code) \notin DOMAIN DELAY_CODE_META
             THEN [kind |-> "unknown", code |-> code]
        ELSE [kind |-> "delay",
              entry |-> [ code         |-> code,
                          delayCodeId  |-> DELAY_CODE_META[Str(code)].id,
                          delayMinutes |-> Val(mins),
                          description  |-> DELAY_CODE_META[Str(code)].description,
                          remark       |-> remark,
                          isArrival    |-> isArrival ]]

\* The rows in order: the delays pushed and the Set of unknown codes, in
\* insertion order
RECURSIVE CollectRows(_, _)
CollectRows(trs, isArrival) ==
    IF trs = <<>> THEN [delays |-> <<>>, unknownCodes |-> <<>>]
    ELSE LET acc == CollectRows(SubSeq(trs, 1, Len(trs) - 1), isArrival)
             o   == DelayRowOutcome(trs[Len(trs)], isArrival)
         IN  IF o.kind = "delay"
             THEN [acc EXCEPT !.delays = Append(@, o.entry)]
             ELSE IF o.kind = "unknown"
                     /\ \A k \in 1..Len(acc.unknownCodes) : acc.unknownCodes[k] /= o.code
             THEN [acc EXCEPT !.unknownCodes = Append(@, o.code)]
             ELSE acc

\* The variant that returns the valid entries although codes are unknown
collectDelaysFromModal_partial(trs, mode) ==
    LET c == CollectRows(trs, mode = Some("arr"))
    IN  [ delays  |-> Some(c.delays),
          alerts  |-> IF c.unknownCodes /= <<>>
                      THEN <<[text |-> "Unknown delay code(s)", codes |-> c.unknownCodes]>>
                      ELSE <<>> ]

\* collectDelaysFromModal(): the value returned (null when a code is unknown)
\* and the alert raised
collectDelaysFromModal(trs, mode) ==
    LET c == CollectRows(trs, mode = Some("arr"))
    IN  IF c.unknownCodes /= <<>>
        THEN [ delays |-> Null,
               alerts |-> <<[text |-> "Unknown delay code(s)", codes |-> c.unknownCodes]>> ]
        ELSE [ delays |-> Some(c.delays), alerts |-> <<>> ]

\* const getHm = (id) => ...: the value of input id when it reads H:MM or
\* HH:MM, else null
getHm(id) ==
    IF id \notin DOMAIN core THEN Null
    ELSE LET v == trim(core[id])
         IN  IF v /= <<>> /\ IsHm(v) THEN Some(v) ELSE Null

\* const getDate = (id) => ...
getDate(id) ==
    IF id \notin DOMAIN core THEN Null
    ELSE LET v == trim(core[id])
         IN  IF v /= <<>> /\ IsYmd(v) THEN Some(v) ELSE Null

\* The departure branch of collectTimeModalPayload (lines 1743-1776), given
\* what getDate and getHm returned
DepFields(depDate, etdHm, offHm, airHm) ==
    LET etdMinutes == parseTimeToMinutes(etdHm)
        offMinutes == parseTimeToMinutes(offHm)
        airMin0    == parseTimeToMinutes(airHm)
        airMinutes == IF ~IsNull(airMin0) /\ ~IsNull(offMinutes)
                         /\ Val(airMin0) < Val(offMinutes)
                      THEN Some(Val(airMin0) + 24 * 60) ELSE airMin0
    IN  [ etd             |-> etdHm,
          offblocks       |-> offHm,
          airborne        |-> airHm,
          dep_date        |-> depDate,
          arr_date        |-> Null,
          etd_local       |-> datePlusMinutesToLocalIso(depDate, etdMinutes),
          offblocks_local |-> datePlusMinutesToLocalIso(depDate, offMinutes),
          airborne_local  |-> IF ~IsNull(airMin0) /\ ~IsNull(offMinutes)
                              THEN datePlusMinutesToLocalIso(depDate, airMinutes)
                              ELSE Null ]

\* The arrival branch (lines 1777-1808)
ArrFields(arrDate, etaHm, landHm, onHm) ==
    LET etaMinutes  == parseTimeToMinutes(etaHm)
        onMinutes   == parseTimeToMinutes(onHm)
        landMin0    == parseTimeToMinutes(landHm)
        landMinutes == IF ~IsNull(landMin0) /\ ~IsNull(onMinutes)
                          /\ Val(landMin0) > Val(onMinutes)
                       THEN Some(Val(landMin0) - 24 * 60) ELSE landMin0
    IN  [ eta            |-> etaHm,
          landing        |-> landHm,
          onchocks       |-> onHm,
          dep_date       |-> Null,
          arr_date       |-> arrDate,
          eta_local      |-> datePlusMinutesToLocalIso(arrDate, etaMinutes),
          landing_local  |-> datePlusMinutesToLocalIso(arrDate, landMinutes),
          onblocks_local |-> datePlusMinutesToLocalIso(arrDate, onMinutes) ]

\* The fields of the payload that depend on the mode
ModeFields ==
    IF currentTimeMode = Some("dep")
    THEN CHOOSE r \in { DepFields(depDate, etdHm, offHm, airHm) :
                            depDate \in {getDate("dep-date")},
                            etdHm \in {getHm("time-etd")},
                            offHm \in {getHm("time-offblocks")},
                            airHm \in {getHm("time-airborne")} } : TRUE
    ELSE CHOOSE r \in { ArrFields(arrDate, etaHm, landHm, onHm) :
                            arrDate \in {getDate("arr-date")},
                            etaHm \in {getHm("time-eta")},
                            landHm \in {getHm("time-landing")},
                            onHm \in {getHm("time-onchocks")} } : TRUE

\* collectTimeModalPayload(): the payload (null when there is nothing to
\* send) and the alerts raised on the way
collectTimeModalPayload ==
    IF IsNull(currentFlight) \/ IsNull(currentTimeMode)
    THEN [payload |-> Null, alerts |-> <<>>]
    ELSE LET d == collectDelaysFromModal(delayRows, currentTimeMode)
             f == Val(currentFlight)
         IN  IF IsNull(d.delays)
             THEN [payload |-> Null, alerts |-> d.alerts]
             ELSE [ payload |-> Some(
                      [ mode               |-> Val(currentTimeMode),
                        dep                |-> f.dep,
                        ades               |-> f.ades,
                        designator         |-> f.designator,
                        flight_number      |-> IF f.flightFull /= <<>> THEN f.flightFull
                                               ELSE f.designator \o f.flightNumeric,
                        std_sched          |-> f.stdSched,
                        sta_sched          |-> f.staSched,
                        envision_flight_id |-> f.envisionFlightId,
                        apg_plan_id        |-> IF f.apgPlanId = <<>> THEN Null
                                               ELSE Some(f.apgPlanId),
                        delays             |-> Val(d.delays),
                        times              |-> ModeFields ]),
                    alerts |-> d.alerts ]

-----------------------------------------------------------------------------
(* The time-edit dialog *)

\* What the operator types into a code input (maxlength 4)
CodeInputs == { <<>>, <<"1">>, <<"9","9","9">>, <<"a","8","1"," ">>, <<"d","l">> }

\* What a number input holds as minutes
MinuteInputs == { <<>>, <<"0">>, <<"2","0">>, <<"-","5">> }

MaxDelayRows == 2

EmptyDelayRow == [code |-> <<>>, mins |-> <<>>, remark |-> <<>>]

\* recalcDelayAllocated(): the text written to #delay-allocated
RECURSIVE SumMinutes(_)
SumMinutes(trs) ==
    IF trs = <<>> THEN 0
    ELSE LET v == parseInt(IF Head(trs).mins = <<>> THEN <<"0">> ELSE Head(trs).mins)
         IN  (IF IsNull(v) THEN 0 ELSE Val(v)) + SumMinutes(Tail(trs))

recalcDelayAllocated(trs) == NumStr(SumMinutes(trs))

\* What a handler leaves in #delay-section, #delay-required, #delay-allocated
Hidden == [shown |-> FALSE, required |-> <<"0">>, allocated |-> <<"0">>]

\* timeInputToDate(inputEl) of the departure dialog
timeInputToDate(flight, raw) ==
    IF IsNull(flight.stdSched) \/ ~IsHm(raw) THEN Null
    ELSE LET ps == Split(raw, ":")
         IN  Some(setHours(Val(flight.stdSched), Val(parseInt(ps[1])), Val(parseInt(ps[2]))))

\* The variant that keeps an early departure's negative difference
updateDelayDep_signed(flight, off, trs) ==
    IF IsNull(flight.stdSched) THEN Hidden
    ELSE LET offDt == timeInputToDate(flight, off)
         IN  IF IsNull(offDt) THEN Hidden
             ELSE LET diff == minutesBetween(flight.stdSched, offDt)
                      mag  == IF diff < 0 THEN 0 - diff ELSE diff
                  IN  IF mag > 15
                      THEN [shown |-> TRUE, required |-> NumStr(diff),
                            allocated |-> recalcDelayAllocated(trs)]
                      ELSE Hidden

\* updateDelayDep(): off is the value of #time-offblocks
updateDelayDep(flight, off, trs) ==
    IF IsNull(flight.stdSched) THEN Hidden
    ELSE LET offDt == timeInputToDate(flight, off)
         IN  IF IsNull(offDt) THEN Hidden
             ELSE LET d0        == minutesBetween(flight.stdSched, offDt)
                      delayMins == IF d0 < 0 THEN 0 ELSE d0
                  IN  IF delayMins > 15
                      THEN [shown |-> TRUE, required |-> NumStr(delayMins),
                            allocated |-> recalcDelayAllocated(trs)]
                      ELSE Hidden

\* updateDelayArr(): etaVal is the value of #time-eta
updateDelayArr(flight, etaVal, trs) ==
    IF IsNull(flight.staSched) \/ etaVal = <<>> THEN Hidden
    ELSE LET ps == Split(etaVal, ":")
             h  == parseInt(ps[1])
             m  == IF Len(ps) >= 2 THEN parseInt(ps[2]) ELSE Null
         IN  IF IsNull(h) \/ IsNull(m) THEN Hidden
             ELSE LET etaDt == Some(setHours(Val(flight.staSched), Val(h), Val(m)))
                      diff  == minutesBetween(flight.staSched, etaDt)
                      mag   == IF diff < 0 THEN 0 - diff ELSE diff
                  IN  IF mag > 15
                      THEN [shown |-> TRUE, required |-> NumStr(diff),
                            allocated |-> recalcDelayAllocated(trs)]
                      ELSE Hidden

\* The inputs buildTimeModal writes into #time-modal-core
BuiltCore(mode, flight) ==
    IF mode = "dep"
    THEN ("time-etd" :> fmtTime(flight.stdEst))
         @@ ("dep-date" :> formatDateYMD(IF ~IsNull(flight.stdSched) THEN flight.stdSched
                                         ELSE flight.stdEst))
         @@ ("time-offblocks" :> <<>>) @@ ("time-airborne" :> <<>>)
    ELSE ("time-eta" :> fmtTime(flight.staEst))
         @@ ("arr-date" :> formatDateYMD(IF ~IsNull(flight.staSched) THEN flight.staSched
                                         ELSE flight.staEst))
         @@ ("time-landing" :> <<>>) @@ ("time-onchocks" :> <<>>)

\* The page with the rows of day d1 rendered and no refresh in flight
InitEdit ==
    /\ dateInput = "d1"
    /\ baseFilter = <<>>
    /\ rows = <<RowOnDay(Row703, "d1"), RowOnDay(Row704, "d1"), RowOnDay(Row701, "d1")>>
    /\ Rendered
    /\ loading = FALSE
    /\ loadedDate = Some("d1")
    /\ pending = <<>>
    /\ newFlights = <<>>
    /\ pc = "page"
    /\ status = Null
    /\ statusNorm = Null
    /\ PaxIdle
    /\ SeatIdle
    /\ EditIdle

\* The bars on the page
Bars == {lanes[i].bars[j] : <<i, j>> \in {<<i, j>> \in (1..Len(lanes)) \X (1..3) :
                                              j <= Len(lanes[i].bars)}}

\* The contextmenu handler of the bar of f
BarContextMenu(f) ==
    /\ ~timeModalOpen
    /\ f \in Bars
    /\ currentFlight' = Some(f)
    /\ alerts' = <<>>
    /\ UNCHANGED <<currentTimeMode, timeModalOpen, delayRows, savePending, core,
                   delayRequired, delayAllocated, delayShown, timesPending>>
    /\ UNCHANGED <<statusVars, buildVars, pc, ganttVars, paxVars, seatVars, crewVars, actionVars>>

MaxTimesPending == 2

\* buildTimeModal replaces the inputs of the dialog: a call still in flight
\* keeps the inputs of the dialog that made it
Detached(e) == IF IsNull(e.inputs) THEN [e EXCEPT !.inputs = Some(core)] ELSE e

\* The context menu's Departure and Arrival entries: buildTimeModal(mode,
\* currentFlight), then timeModal.show()
BuildTimes(mode) ==
    /\ ~timeModalOpen
    /\ ~IsNull(currentFlight)
    /\ currentTimeMode' = Some(mode)
    /\ delayRows' = <<>>
    /\ delayShown' = FALSE
    /\ delayRequired' = <<"0">>
    /\ delayAllocated' = <<"0">>
    /\ core' = BuiltCore(mode, Val(currentFlight))
    /\ IF IsNull(Val(currentFlight).envisionFlightId)
       THEN timesPending' = [i \in 1..Len(timesPending) |-> Detached(timesPending[i])]
       ELSE /\ Len(timesPending) < MaxTimesPending
            /\ timesPending' = Append([i \in 1..Len(timesPending) |-> Detached(timesPending[i])],
                                      [flight |-> Val(currentFlight), mode |-> mode,
                                       inputs |-> Null])
    /\ timeModalOpen' = TRUE
    /\ alerts' = <<>>
    /\ UNCHANGED <<currentFlight, savePending>>
    /\ UNCHANGED <<statusVars, buildVars, pc, ganttVars, paxVars, seatVars, crewVars, actionVars>>

\* The dialog built after the roster has answered the one before
CtxTimes(mode) ==
    /\ timesPending = <<>>
    /\ BuildTimes(mode)

\* The operator edits the dialog only while no save is in flight
CanEdit == timeModalOpen /\ IsNull(savePending)

\* What the operator enters into the inputs of the dialog
TimeChoices ==
    ("time-etd" :> {<<>>, <<"0","8",":","0","5">>})
    @@ ("time-offblocks" :> {<<>>, <<"0","7",":","4","0">>, <<"0","8",":","1","0">>, <<"0","8",":","1","5">>, <<"0","8",":","2","0">>, <<"2","3",":","5","5">>})
    @@ ("time-airborne" :> {<<>>, <<"0","0",":","0","5">>, <<"0","8",":","3","0">>})
    @@ ("dep-date" :> {<<>>, formatDateYMD(Some(1440))})
    @@ ("time-eta" :> {<<>>, <<"0","9",":","1","0">>, <<"0","9",":","4","5">>, <<"0","9",":","4","6">>, <<"0","9",":","5","0">>})
    @@ ("time-landing" :> {<<>>, <<"2","3",":","5","0">>, <<"0","9",":","2","0">>})
    @@ ("time-onchocks" :> {<<>>, <<"0","0",":","1","0">>, <<"0","9",":","2","5">>})
    @@ ("arr-date" :> {<<>>, formatDateYMD(Some(1440))})

\* The labels after the handlers of the dialog's inputs have run
DelayLabels(l) ==
    /\ delayShown' = l.shown
    /\ delayRequired' = l.required
    /\ delayAllocated' = l.allocated

\* The operator sets input id to v: the change and input handlers
\* (updateDelayDep on #time-etd and #time-offblocks, updateDelayArr on
\* #time-eta)
TypeTime(id, v) ==
    /\ CanEdit
    /\ id \in DOMAIN core
    /\ v \in TimeChoices[id]
    /\ core' = [core EXCEPT ![id] = v]
    /\ IF id \in {"time-etd", "time-offblocks"}
       THEN DelayLabels(updateDelayDep(Val(currentFlight), core'["time-offblocks"], delayRows))
       ELSE IF id = "time-eta"
       THEN DelayLabels(updateDelayArr(Val(currentFlight), v, delayRows))
       ELSE UNCHANGED <<delayShown, delayRequired, delayAllocated>>
    /\ alerts' = <<>>
    /\ UNCHANGED <<currentFlight, currentTimeMode, timeModalOpen, delayRows,
                   savePending, timesPending>>
    /\ UNCHANGED <<statusVars, buildVars, pc, ganttVars, paxVars, seatVars, crewVars, actionVars>>

\* data.local_hm of the roster's answers; null is an answer without it, an
\* answer that is not ok, or a failed fetch
RosterAnswers ==
    { Null,
      Some([departureActual |-> <<"0","8",":","2","0">>, departureTakeOff |-> <<"0","8",":","3","0">>,
            arrivalLanded |-> <<"0","9",":","2","0">>, arrivalActual |-> <<"0","9",":","5","0">>]),
      Some([departureActual |-> <<>>, departureTakeOff |-> <<"0","8",":","3","0">>,
            arrivalLanded |-> <<"0","9",":","2","0">>, arrivalActual |-> <<>>]) }

Fill(c, id, v) == IF v /= <<>> /\ c[id] = <<>> THEN [c EXCEPT ![id] = v] ELSE c

\* The inputs after the callback has filled the empty ones
Filled(mode, c, hm) ==
    IF mode = "dep"
    THEN Fill(Fill(Fill(c, "time-offblocks", hm.departureActual),
                   "time-airborne", hm.departureTakeOff),
              "time-etd", hm.departureActual)
    ELSE Fill(Fill(Fill(c, "time-landing", hm.arrivalLanded),
                   "time-onchocks", hm.arrivalActual),
              "time-eta", hm.arrivalActual)

\* The .then callback of the fetchEnvisionTimes call timesPending[i]: it
\* fills the inputs of the dialog that made the call and runs that dialog's
\* updateDelayDep or updateDelayArr, which write the delay section of the page
RosterTimes(i, hm) ==
    /\ i \in 1..Len(timesPending)
    /\ timesPending' = RemoveAt(timesPending, i)
    /\ IF IsNull(hm)
       THEN UNCHANGED <<core, delayShown, delayRequired, delayAllocated>>
       ELSE \E e \in {timesPending[i]} :
            \E c \in {Filled(e.mode, IF IsNull(e.inputs) THEN core ELSE Val(e.inputs), Val(hm))} :
               /\ core' = IF IsNull(e.inputs) THEN c ELSE core
               /\ IF e.mode = "dep"
                  THEN DelayLabels(updateDelayDep(e.flight, c["time-offblocks"], delayRows))
                  ELSE DelayLabels(updateDelayArr(e.flight, c["time-eta"], delayRows))
    /\ UNCHANGED <<currentFlight, currentTimeMode, timeModalOpen, delayRows,
                   alerts, savePending>>
    /\ UNCHANGED <<statusVars, buildVars, pc, ganttVars, paxVars, seatVars, crewVars, actionVars>>

\* The click handler of #btn-add-delay
AddDelayRow ==
    /\ CanEdit
    /\ Len(delayRows) < MaxDelayRows
    /\ delayRows' = Append(delayRows, EmptyDelayRow)
    /\ delayAllocated' = recalcDelayAllocated(delayRows')
    /\ alerts' = <<>>
    /\ UNCHANGED <<currentFlight, currentTimeMode, timeModalOpen, savePending,
                   core, delayRequired, delayShown, timesPending>>
    /\ UNCHANGED <<statusVars, buildVars, pc, ganttVars, paxVars, seatVars, crewVars, actionVars>>

\* The operator types into the code input of row i: the input handler
\* writes the reason field only
TypeDelayCode(i, v) ==
    /\ CanEdit
    /\ i \in 1..Len(delayRows)
    /\ delayRows' = [delayRows EXCEPT ![i].code = v]
    /\ alerts' = <<>>
    /\ UNCHANGED <<currentFlight, currentTimeMode, timeModalOpen, savePending,
                   core, delayRequired, delayAllocated, delayShown, timesPending>>
    /\ UNCHANGED <<statusVars, buildVars, pc, ganttVars, paxVars, seatVars, crewVars, actionVars>>

\* The operator types into the minutes input of row i: the input handler
\* is recalcDelayAllocated
TypeDelayMinutes(i, v) ==
    /\ CanEdit
    /\ i \in 1..Len(delayRows)
    /\ delayRows' = [delayRows EXCEPT ![i].mins = v]
    /\ delayAllocated' = recalcDelayAllocated(delayRows')
    /\ alerts' = <<>>
    /\ UNCHANGED <<currentFlight, currentTimeMode, timeModalOpen, savePending,
                   core, delayRequired, delayShown, timesPending>>
    /\ UNCHANGED <<statusVars, buildVars, pc, ganttVars, paxVars, seatVars, crewVars, actionVars>>

\* The click handler of a row's remove button
RemoveDelayRow(i) ==
    /\ CanEdit
    /\ i \in 1..Len(delayRows)
    /\ delayRows' = RemoveAt(delayRows, i)
    /\ delayAllocated' = recalcDelayAllocated(delayRows')
    /\ alerts' = <<>>
    /\ UNCHANGED <<currentFlight, currentTimeMode, timeModalOpen, savePending,
                   core, delayRequired, delayShown, timesPending>>
    /\ UNCHANGED <<statusVars, buildVars, pc, ganttVars, paxVars, seatVars, crewVars, actionVars>>

\* The click handler of #btn-save-times up to its first await
SaveTimesClick ==
    /\ CanEdit
    /\ \E c \in {collectTimeModalPayload} :
           IF IsNull(c.payload)
           THEN /\ alerts' = Append(c.alerts, [text |-> "No flight / times to save.",
                                               codes |-> <<>>])
                /\ UNCHANGED savePending
           ELSE /\ alerts' = c.alerts
                /\ savePending' = c.payload
    /\ UNCHANGED <<currentFlight, currentTimeMode, timeModalOpen, delayRows,
                   core, delayRequired, delayAllocated, delayShown, timesPending>>
    /\ UNCHANGED <<statusVars, buildVars, pc, ganttVars, paxVars, seatVars, crewVars, actionVars>>

SaveOutcomes == {"ok", "http-error", "ok-false", "failed"}

\* The rest of the handler once the request has answered or failed: the
\* alerts of the failure paths, then finally timeModal.hide()
SaveTimesDone(outcome) ==
    /\ ~IsNull(savePending)
    /\ alerts' = CASE outcome = "ok" -> <<>>
                   [] outcome \in {"http-error", "ok-false"} ->
                        << [text |-> "Backend reported an error saving times", codes |-> <<>>],
                           [text |-> "Error saving times", codes |-> <<>>] >>
                   [] outcome = "failed" ->
                        << [text |-> "Error saving times", codes |-> <<>>] >>
    /\ timeModalOpen' = FALSE
    /\ savePending' = Null
    /\ UNCHANGED <<currentFlight, currentTimeMode, delayRows, core, delayRequired,
                   delayAllocated, delayShown, timesPending>>
    /\ UNCHANGED <<statusVars, buildVars, pc, ganttVars, paxVars, seatVars, crewVars, actionVars>>

\* The delay rows of the dialog, its times left as built and the roster
\* without times
NextEdit ==
    \/ \E f \in Bars : BarContextMenu(f)
    \/ \E mode \in {"dep", "arr"} : CtxTimes(mode)
    \/ RosterTimes(1, Null)
    \/ AddDelayRow
    \/ \E i \in 1..MaxDelayRows : \E v \in CodeInputs : TypeDelayCode(i, v)
    \/ \E i \in 1..MaxDelayRows : \E v \in MinuteInputs : TypeDelayMinutes(i, v)
    \/ \E i \in 1..MaxDelayRows : RemoveDelayRow(i)
    \/ SaveTimesClick
    \/ \E outcome \in SaveOutcomes : SaveTimesDone(outcome)

SpecEdit == InitEdit /\ [][NextEdit]_vars

TimeIds == {"time-etd", "time-offblocks", "time-airborne", "dep-date",
            "time-eta", "time-landing", "time-onchocks", "arr-date"}

\* The times of the dialog, without delay rows
NextTimes ==
    \/ \E f \in Bars : BarContextMenu(f)
    \/ \E mode \in {"dep", "arr"} : CtxTimes(mode)
    \/ \E hm \in RosterAnswers : RosterTimes(1, hm)
    \/ \E id \in TimeIds : \E v \in TimeChoices[id] : TypeTime(id, v)
    \/ SaveTimesClick
    \/ SaveTimesDone("ok")

SpecTimes == InitEdit /\ [][NextTimes]_vars

\* The dialog built again while the roster has not answered an earlier one
NextRoster ==
    \/ \E f \in Bars : BarContextMenu(f)
    \/ \E mode \in {"dep", "arr"} : BuildTimes(mode)
    \/ \E i \in 1..MaxTimesPending : \E hm \in RosterAnswers : RosterTimes(i, hm)
    \/ SaveTimesClick
    \/ \E outcome \in SaveOutcomes : SaveTimesDone(outcome)

SpecRoster == InitEdit /\ [][NextRoster]_vars

-----------------------------------------------------------------------------
(* The flight action dialog: crew, passenger list, seat map, plan push *)

MaxCrewCalls == 4

MaxCrewPending == 4

\* f.crew of the flight with this id; null when none was attached
CrewOfFlight(id) == IF id \in DOMAIN crewOf THEN crewOf[id] ELSE Null

CallsFor(id) == IF id \in DOMAIN crewCalls THEN crewCalls[id] ELSE 0

\* Array.isArray(f.crew) && f.crew.length
HasCrew(id) == ~IsNull(CrewOfFlight(id)) /\ Val(CrewOfFlight(id)) /= <<>>

\* What a crew element shows and whether fetchEnvisionCrew is called for it
\* (populateFlightDetailsModal lines 783-813, updateCrewSidebar lines 1661-1691)
CrewView(f) ==
    IF IsNull(f.envisionFlightId) THEN [shows |-> <<"not linked">>, fetch |-> FALSE]
    ELSE IF HasCrew(f.id) THEN [shows |-> <<"crew", Val(CrewOfFlight(f.id))>>, fetch |-> FALSE]
    ELSE [shows |-> <<"loading">>, fetch |-> TRUE]

\* The click handler of the bar of f: populateFlightDetailsModal(f) as far as
\* the crew goes, then updateCrewSidebar(f)
BarClick(f) ==
    /\ ~timeModalOpen
    /\ f \in Bars
    /\ CrewView(f).fetch => /\ CallsFor(f.id) + 2 <= MaxCrewCalls
                            /\ Len(crewPending) + 2 <= MaxCrewPending
    /\ currentFlight' = Some(f)
    /\ \E v \in {CrewView(f)} :
          /\ modalCrew' = v.shows
          /\ crewPanel' = v.shows
          /\ crewPending' = IF v.fetch
                            THEN crewPending \o <<[flight |-> f.id, el |-> "modal"],
                                                  [flight |-> f.id, el |-> "panel"]>>
                            ELSE crewPending
          /\ crewCalls' = IF v.fetch
                          THEN [id \in DOMAIN crewCalls \cup {f.id} |->
                                   IF id = f.id THEN CallsFor(id) + 2 ELSE crewCalls[id]]
                          ELSE crewCalls
    /\ UNCHANGED <<crewOf, actionVars>>
    /\ UNCHANGED <<currentTimeMode, timeModalOpen, delayRows, alerts, savePending, core,
                   delayRequired, delayAllocated, delayShown, timesPending>>
    /\ UNCHANGED <<statusVars, buildVars, pc, ganttVars, paxVars, seatVars>>

\* What the roster answers to 'get crew': null for an answer that is not ok
\* or a failed fetch, an empty list, or a crew
CrewAnswers == { Null, Some(<<>>), Some(<<"CPT", "FO">>) }

\* The .then callback of the fetchEnvisionCrew call crewPending[i]
CrewAnswer(i, crew) ==
    /\ i \in 1..Len(crewPending)
    /\ crewPending' = RemoveAt(crewPending, i)
    /\ \E e \in {crewPending[i]} :
       \E shows \in {IF IsNull(crew) \/ Val(crew) = <<>> THEN <<"no crew">>
                     ELSE <<"crew", Val(crew)>>} :
          /\ crewOf' = IF IsNull(crew) \/ Val(crew) = <<>> THEN crewOf
                       ELSE [id \in DOMAIN crewOf \cup {e.flight} |->
                                IF id = e.flight THEN crew ELSE crewOf[id]]
          /\ IF e.el = "modal"
             THEN modalCrew' = shows /\ UNCHANGED crewPanel
             ELSE crewPanel' = shows /\ UNCHANGED modalCrew
    /\ UNCHANGED <<crewCalls, actionVars>>
    /\ UNCHANGED <<statusVars, buildVars, pc, ganttVars, paxVars, seatVars, editVars>>

NextCrew ==
    \/ \E f \in Bars : BarClick(f)
    \/ \E i \in 1..MaxCrewPending : \E crew \in CrewAnswers : CrewAnswer(i, crew)

SpecCrew == InitEdit /\ [][NextCrew]_vars

\* The click handler of #btn-view-pax
ViewPaxClick ==
    /\ ~IsNull(currentFlight)
    /\ paxListFor' = currentFlight
    /\ UNCHANGED <<apgPending, crewVars>>
    /\ UNCHANGED <<statusVars, buildVars, pc, ganttVars, paxVars, seatVars, editVars>>

\* The click handler of #btn-seatmap
SeatmapClick ==
    /\ ~IsNull(currentFlight)
    /\ seatmapFlight' = currentFlight
    /\ seatmapPax' = Val(currentFlight).paxList
    /\ seatmap' = Some(buildSeatmapForFlight(Val(currentFlight), Val(currentFlight).paxList))
    /\ UNCHANGED <<crewVars, actionVars>>
    /\ UNCHANGED <<statusVars, buildVars, pc, ganttVars, paxVars, editVars>>

\* Bar clicks, refreshes and the dependent views
NextViews ==
    \/ DateSubmit
    \/ \E i \in 1..MaxPending : RefreshOk(i)
    \/ \E f \in Bars : BarClick(f)
    \/ ViewPaxClick
    \/ SeatmapClick

SpecViews == InitGantt /\ [][NextViews]_vars

\* /\s+/g removed
StripSpaces(s) == SelectSeq(s, LAMBDA c : c \notin SpaceChars)

IsUpperLetter(c) == \E i \in 1..26 : UpperChars[i] = c

\* fullNo.match(/^([A-Z]{1,3})?(\d+)/): the letters of group 1, empty when
\* the group did not take part or nothing matched
LeadingDesignator(s) ==
    LET fits == {k \in 1..3 : /\ k < Len(s)
                              /\ \A j \in 1..k : IsUpperLetter(s[j])
                              /\ IsDigit(s[k + 1])}
    IN  IF fits = {} THEN <<>> ELSE SubSeq(s, 1, MaxOfSet(fits))

\* fullNo.match(/(\d+)$/): the digits the text ends with
RECURSIVE TrailingDigits(_)
TrailingDigits(s) ==
    IF s = <<>> \/ ~IsDigit(s[Len(s)]) THEN <<>>
    ELSE Append(TrailingDigits(SubSeq(s, 1, Len(s) - 1)), s[Len(s)])

\* dt.toISOString().slice(0, 10): the UTC date of a local time of New
\* Zealand in summer, 13 hours ahead
UtcDate(d) == IF IsNull(d) THEN <<>> ELSE formatDateYMD(Some(Val(d) - 13 * 60))

\* The payload sendToFlightPlan builds (lines 836-897); an empty text
\* stands for null
PlanPayload(f) ==
    LET dt          == IF ~IsNull(f.stdEst) THEN f.stdEst ELSE f.stdSched
        designator0 == toUpperCase(trim(f.designator))
        fullNo      == toUpperCase(StripSpaces(
                          IF f.flightFull /= <<>> THEN f.flightFull
                          ELSE IF designator0 /= <<>> /\ f.flightNumeric /= <<>>
                          THEN designator0 \o f.flightNumeric ELSE <<>>))
        designator  == IF designator0 = <<>> /\ fullNo /= <<>>
                       THEN LeadingDesignator(fullNo) ELSE designator0
        number      == IF fullNo /= <<>> THEN TrailingDigits(fullNo)
                       ELSE IF designator /= <<>> /\ f.flightNumeric /= <<>>
                       THEN f.flightNumeric ELSE <<>>
    IN  [ apg_plan_id   |-> trim(f.apgPlanId),
          dep           |-> toUpperCase(f.dep),
          ades          |-> toUpperCase(f.ades),
          date          |-> UtcDate(dt),
          designator    |-> designator,
          flight_number |-> number,
          reg           |-> toUpperCase(f.reg),
          envision_flight_id |-> f.envisionFlightId,
          preview_only  |-> FALSE,
          pax_list      |-> f.paxList ]

APG_MISSING_ALERT ==
    [text |-> "Cannot send to APG: missing required data (plan/dep/ades/date/flight).",
     codes |-> <<>>]

\* The guard of lines 901-908
PlanPayloadComplete(p) ==
    /\ p.apg_plan_id /= <<>>
    /\ p.dep /= <<>>
    /\ p.ades /= <<>>
    /\ p.date /= <<>>
    /\ p.designator /= <<>>
    /\ p.flight_number /= <<>>

\* The click handler of #btn-send-apg: sendToFlightPlan(currentFlight,
\* currentBarEl) up to the fetch
SendPlanClick ==
    /\ ~IsNull(currentFlight)
    /\ \E p \in {PlanPayload(Val(currentFlight))} :
          IF PlanPayloadComplete(p)
          THEN /\ apgPending' = <<p>>
               /\ alerts' = <<>>
          ELSE /\ alerts' = <<APG_MISSING_ALERT>>
               /\ UNCHANGED apgPending
    /\ UNCHANGED <<paxListFor, crewVars>>
    /\ UNCHANGED <<currentFlight, currentTimeMode, timeModalOpen, delayRows, savePending, core,
                   delayRequired, delayAllocated, delayShown, timesPending>>
    /\ UNCHANGED <<statusVars, buildVars, pc, ganttVars, paxVars, seatVars>>

\* The plan system answers, or the request fails: the button and the bar
\* are restored
SendPlanDone ==
    /\ apgPending /= <<>>
    /\ apgPending' = <<>>
    /\ UNCHANGED <<paxListFor, crewVars>>
    /\ UNCHANGED <<statusVars, buildVars, pc, ganttVars, paxVars, seatVars, editVars>>

\* Rows with and without the fields a plan push needs
PlanRows ==
    { Row701, Row705, Row706,
      [Row701 EXCEPT !.apg_plan_id = Some(<<" ">>)],
      [Row701 EXCEPT !.dep = Null],
      [Row701 EXCEPT !.ades = Some(<<>>)],
      [Row701 EXCEPT !.designator = Null],
      [Row701 EXCEPT !.designator = Null, !.flight_number = Some(<<"n","z"," ","7","0","1">>)],
      [Row701 EXCEPT !.flight_number = Null],
      [Row701 EXCEPT !.flight_number = Some(<<"3","C">>)],
      [Row701 EXCEPT !.apg_plan_id = Null, !.ades = Null, !.flight_number = Null] }

\* The page with two of these rows rendered and no refresh in flight
InitPlan ==
    /\ dateInput = "d1"
    /\ baseFilter = <<>>
    /\ rows \in {<<[a EXCEPT !.reg = Some(<<"Z","K","-","A","A","A">>)], b>> :
                    a \in PlanRows, b \in PlanRows}
    /\ Rendered
    /\ loading = FALSE
    /\ loadedDate = Some("d1")
    /\ pending = <<>>
    /\ newFlights = <<>>
    /\ pc = "page"
    /\ status = Null
    /\ statusNorm = Null
    /\ PaxIdle
    /\ SeatIdle
    /\ EditIdle

NextPlan ==
    \/ \E f \in Bars : BarContextMenu(f)
    \/ SendPlanClick
    \/ SendPlanDone

SpecPlan == InitPlan /\ [][NextPlan]_vars

-----------------------------------------------------------------------------
(* Claims about normaliseStatus *)

Keywords == <<KW_planning, KW_onblocks, KW_offblocks, KW_takeoff,
              KW_landed, KW_returntostand, KW_divert>>

States == <<ST_planning, ST_onblocks, ST_offblocks, ST_takeoff,
            ST_landed, ST_returntostand, ST_diverted>>

\* k occurs in s, letters compared without regard to case
includesCI(s, k) ==
    \E i \in 0..(Len(s) - Len(k)) :
        \A j \in 1..Len(k) : ToUpperChar(s[i + j]) = ToUpperChar(k[j])

\* The positions, in the fixed keyword order, of the keywords a text contains
Matches(st) ==
    IF IsNull(st) THEN {}
    ELSE {i \in 1..7 : includesCI(Val(st), Keywords[i])}

MinOf(S) == CHOOSE i \in S : \A j \in S : i <= j

\* C4: the state returned is that of the earliest keyword, in the order
\* planning, on blocks, off blocks, take off, landed, return to stand, divert,
\* that the text contains case-insensitively; unknown when the text is empty,
\* absent or contains none of them.
C4_FirstKeywordWins ==
    pc = "done" =>
        IF Matches(status) = {}
        THEN Val(statusNorm) = ST_unknown
        ELSE Val(statusNorm) = States[MinOf(Matches(status))]

\* A text with several keywords has been normalised to the earliest one
C4_Witness ==
    /\ pc = "done"
    /\ Cardinality(Matches(status)) >= 2
    /\ MinOf(Matches(status)) = 2
    /\ Val(statusNorm) = ST_onblocks

\* C5: normalising the result of a normalisation gives the same state again,
\* and the result is one of the defined states.
C5_Idempotent ==
    pc = "done" =>
        /\ normaliseStatus(statusNorm) = Val(statusNorm)
        /\ Val(statusNorm) \in {States[i] : i \in 1..7} \cup {ST_unknown}

-----------------------------------------------------------------------------
(* Claims about the time resolver *)

\* The row a built flight comes from: f.id is the row's index
RowOf(f) == rows[f.id + 1]

\* C1: the display-start of every flight built is the first non-null of the
\* row's actual, estimated and scheduled departure; whenever the row has any
\* arrival time its display-end is the first non-null of actual, estimated
\* and scheduled arrival; a row with only a scheduled pair is built with
\* display-start and display-end equal to the scheduled pair.
C1_Precedence ==
    pc = "done" =>
        /\ \A i \in 1..Len(newFlights) :
              LET f  == newFlights[i]
                  r  == RowOf(f)
                  da == parseDate(r.dep_actual_nz)
                  de == parseDate(r.std_nz)
                  ds == parseDate(r.std_sched_nz)
                  aa == parseDate(r.arr_actual_nz)
                  ae == parseDate(r.sta_nz)
                  as == parseDate(r.sta_sched_nz)
              IN  /\ f.stdEst = (IF da /= Null THEN da ELSE IF de /= Null THEN de ELSE ds)
                  /\ (aa /= Null \/ ae /= Null \/ as /= Null) =>
                        f.staEst = (IF aa /= Null THEN aa ELSE IF ae /= Null THEN ae ELSE as)
        /\ \A j \in 1..Len(rows) :
              LET r == rows[j] IN
              ( /\ parseDate(r.dep_actual_nz) = Null /\ parseDate(r.std_nz) = Null
                /\ parseDate(r.arr_actual_nz) = Null /\ parseDate(r.sta_nz) = Null
                /\ parseDate(r.std_sched_nz) /= Null
                /\ parseDate(r.sta_sched_nz) /= Null )
              => \E i \in 1..Len(newFlights) :
                    /\ newFlights[i].id = j - 1
                    /\ newFlights[i].stdEst = parseDate(r.std_sched_nz)
                    /\ newFlights[i].staEst = parseDate(r.sta_sched_nz)

\* A row with actual, estimated and scheduled times at both ends was built
\* from its actual times
C1_Witness ==
    /\ pc = "done"
    /\ Len(newFlights) = 1
    /\ rows[1].dep_actual_nz = Iso(625) /\ rows[1].std_nz = Iso(610)
    /\ rows[1].std_sched_nz = Iso(600)
    /\ rows[1].arr_actual_nz = RawNull /\ rows[1].sta_nz = Iso(690)
    /\ rows[1].sta_sched_nz = Iso(700)
    /\ newFlights[1].stdEst = Some(625)
    /\ newFlights[1].staEst = Some(690)

\* The block-minutes the claims speak of: the integer the text starts with,
\* 60 when the text is absent, empty, not a number, or zero
BlockOf(r) ==
    LET n == IF IsNull(r.block_mins) \/ Val(r.block_mins) = <<>>
             THEN Null ELSE parseInt(Val(r.block_mins))
    IN  IF n = Null \/ n = Some(0) THEN 60 ELSE Val(n)

\* C2 as claimed: a row with an actual departure and neither an actual nor
\* an estimated arrival is built with display-end = display-start + block.
C2_Original ==
    pc = "done" =>
        \A i \in 1..Len(newFlights) :
            LET f == newFlights[i]
                r == RowOf(f)
            IN  ( /\ parseDate(r.dep_actual_nz) /= Null
                  /\ parseDate(r.arr_actual_nz) = Null
                  /\ parseDate(r.sta_nz) = Null )
                => Val(f.staEst) = Val(f.stdEst) + BlockOf(r)

\* C2 amended: a row with a resolved display-start and no actual, estimated
\* or scheduled arrival is built with display-end = display-start + block,
\* block being 60 when the block-minutes text is absent, empty, not a
\* number, or zero.
C2_SynthesisedEnd ==
    pc = "done" =>
        \A j \in 1..Len(rows) :
            LET r == rows[j] IN
            ( /\ (\/ parseDate(r.dep_actual_nz) /= Null
                  \/ parseDate(r.std_nz) /= Null
                  \/ parseDate(r.std_sched_nz) /= Null)
              /\ parseDate(r.arr_actual_nz) = Null
              /\ parseDate(r.sta_nz) = Null
              /\ parseDate(r.sta_sched_nz) = Null )
            => \E i \in 1..Len(newFlights) :
                  /\ newFlights[i].id = j - 1
                  /\ Val(newFlights[i].staEst)
                        = Val(newFlights[i].stdEst) + BlockOf(r)

\* An actual departure with no arrival time at all and an unparseable
\* block-minutes text: the end is 60 minutes after the actual departure
C2_Witness ==
    /\ pc = "done"
    /\ Len(newFlights) = 1
    /\ rows[1].dep_actual_nz = Iso(625)
    /\ parseDate(rows[1].arr_actual_nz) = Null
    /\ parseDate(rows[1].sta_nz) = Null
    /\ parseDate(rows[1].sta_sched_nz) = Null
    /\ rows[1].block_mins = Some(<<"a","b","c">>)
    /\ newFlights[1].stdEst = Some(625)
    /\ newFlights[1].staEst = Some(685)

-----------------------------------------------------------------------------
(* Claims about the active flight set *)

\* The start and the end a row resolves to, after the block-minutes synthesis
StartOfRow(r) ==
    LET a == parseDate(r.dep_actual_nz)
        e == parseDate(r.std_nz)
        s == parseDate(r.std_sched_nz)
    IN  IF a /= Null THEN a ELSE IF e /= Null THEN e ELSE s

EndOfRow(r) ==
    LET a == parseDate(r.arr_actual_nz)
        e == parseDate(r.sta_nz)
        s == parseDate(r.sta_sched_nz)
    IN  IF a /= Null THEN a
        ELSE IF e /= Null THEN e
        ELSE IF s /= Null THEN s
        ELSE IF StartOfRow(r) /= Null THEN Some(Val(StartOfRow(r)) + BlockOf(r))
        ELSE Null

\* C3: every flight of the active set has a display-start and a display-end;
\* the set holds, in row order, exactly the rows for which both resolve; the
\* others are left out and the build goes on.
C3_ActiveSetResolved ==
    /\ \A i \in 1..Len(flights) :
          flights[i].stdEst /= Null /\ flights[i].staEst /= Null
    /\ \A j \in 1..Len(rows) :
          (StartOfRow(rows[j]) /= Null /\ EndOfRow(rows[j]) /= Null)
             <=> (\E i \in 1..Len(flights) : flights[i].id = j - 1)
    /\ \A i, k \in 1..Len(flights) : i < k => flights[i].id < flights[k].id

\* A refresh answered with an unresolvable row between two resolvable ones:
\* the active set holds the first and the third
C3_Witness ==
    /\ pending = <<>>
    /\ ~loading
    /\ Len(rows) = 3
    /\ StartOfRow(rows[2]) = Null
    /\ Len(flights) = 2
    /\ flights[1].id = 0
    /\ flights[2].id = 2

-----------------------------------------------------------------------------
(* Claims about classifyPaxStatus *)

\* The status text of record p: its first non-empty status field, upper-cased
RawText(p) ==
    LET set == {k \in 1..8 : p[StatusAliases[k]] /= Null
                             /\ p[StatusAliases[k]] /= Some(<<>>)}
    IN  IF set = {} THEN <<>>
        ELSE toUpperCase(Val(p[StatusAliases[MinOf(set)]]))

FlagFlown(p)   == p.Flown = "true" \/ p.flown = "true"
FlagBoarded(p) == p.Boarded = "true" \/ p.boarded = "true"
FlagChecked(p) == p.CheckedIn = "true" \/ p.checkedIn = "true"

TextFlown(x)   == includes(x, <<"F","L","O","W","N">>) \/ x = <<"F","L","W","N">>
TextBoarded(x) == includes(x, <<"B","O","A","R","D">>) \/ x = <<"B","D">> \/ x = <<"B","R","D">>
TextChecked(x) == includes(x, <<"C","H","E","C","K">>) \/ x = <<"C","I">> \/ x = <<"C","K","I","N">> \/ x = <<"C","K","I">>

\* C6: the state returned follows the strict priority: FLOWN by flag or by
\* text; else BOARDED by flag; else CHECKED by flag; else BOOKED for an empty
\* text; else BOARDED for a text containing BOARD; CHECKED for one containing
\* CHECK or equal to CI, CKIN, CKI; BOARDED for BD, BRD; else BOOKED.
C6_StrictPriority ==
    pc = "done" =>
        LET p == Val(pax)
            x == RawText(p)
            r == Val(paxStatus)
        IN  /\ (FlagFlown(p) \/ TextFlown(x)) => r = "FLOWN"
            /\ (~(FlagFlown(p) \/ TextFlown(x)) /\ FlagBoarded(p)) => r = "BOARDED"
            /\ (~(FlagFlown(p) \/ TextFlown(x)) /\ ~FlagBoarded(p) /\ FlagChecked(p))
                  => r = "CHECKED"
            /\ (~(FlagFlown(p) \/ TextFlown(x)) /\ ~FlagBoarded(p) /\ ~FlagChecked(p))
                  => r = (IF x = <<>> THEN "BOOKED"
                          ELSE IF includes(x, <<"B","O","A","R","D">>) THEN "BOARDED"
                          ELSE IF TextChecked(x) THEN "CHECKED"
                          ELSE IF TextBoarded(x) THEN "BOARDED"
                          ELSE "BOOKED")
            /\ (FlagFlown(p) /\ x = <<"B","O","O","K","E","D">>) => r = "FLOWN"
            /\ x = <<"B","O","A","R","D","E","D"," ","F","L","O","W","N">> => r = "FLOWN"

\* flown = true with status BOOKED and a stale boarded flag: FLOWN
C6_Witness ==
    /\ pc = "done"
    /\ Val(pax).flown = "true"
    /\ Val(pax).Boarded = "true"
    /\ RawText(Val(pax)) = <<"B","O","O","K","E","D">>
    /\ Val(paxStatus) = "FLOWN"

Rank(s) == CASE s = "BOOKED" -> 0 [] s = "CHECKED" -> 1
             [] s = "BOARDED" -> 2 [] s = "FLOWN" -> 3

\* C7: the state returned is never lower, in BOOKED < CHECKED < BOARDED <
\* FLOWN, than a state one of the record's flags or its status text indicates.
C7_MaximalState ==
    pc = "done" =>
        LET p == Val(pax)
            x == RawText(p)
            r == Rank(Val(paxStatus))
        IN  /\ (FlagFlown(p) \/ TextFlown(x)) => r >= 3
            /\ (FlagBoarded(p) \/ TextBoarded(x)) => r >= 2
            /\ (FlagChecked(p) \/ TextChecked(x)) => r >= 1

-----------------------------------------------------------------------------
(* Claims about the delay ledger *)

HasDigit(s) == \E k \in 1..Len(s) : s[k] \in AllDigits

\* The digits of the code, a single digit with a 0 before it
NormCode(tr) ==
    LET d == SelectSeq(tr.code, LAMBDA c : c \in AllDigits)
    IN  IF Len(d) = 1 THEN <<"0">> \o d ELSE d

PositiveMinutes(tr) ==
    LET m == parseInt(tr.mins) IN ~IsNull(m) /\ Val(m) > 0

\* The rows that reach the table lookup, and those of them whose code is
\* not a key of the table
Surviving == {i \in 1..Len(delayRows) :
                 HasDigit(delayRows[i].code) /\ PositiveMinutes(delayRows[i])}

SurvivingUnknown == {i \in Surviving : Str(NormCode(delayRows[i])) \notin DOMAIN DELAY_CODE_META}

CodesOf(a) == {a.codes[k] : k \in 1..Len(a.codes)}

\* C8: when a surviving row's normalised code is not in the table, the
\* batch is rejected: collectDelaysFromModal returns null and not the valid
\* entries, the unknown codes are reported, collectTimeModalPayload returns
\* null and the save handler sends no request.
C8_BatchRejected ==
    [][ (SaveTimesClick /\ SurvivingUnknown /= {}) =>
            /\ IsNull(collectDelaysFromModal(delayRows, currentTimeMode).delays)
            /\ IsNull(collectTimeModalPayload.payload)
            /\ IsNull(savePending')
            /\ Len(alerts') = 2
            /\ alerts'[1].text = "Unknown delay code(s)"
            /\ CodesOf(alerts'[1]) = {NormCode(delayRows[i]) : i \in SurvivingUnknown}
            /\ alerts'[2].text = "No flight / times to save." ]_vars

\* Rows 1 / 20 and 999 / 20 saved: 999 is reported and nothing is sent
C8_Witness ==
    /\ timeModalOpen
    /\ Len(delayRows) = 2
    /\ delayRows[1].code = <<"1">> /\ delayRows[1].mins = <<"2","0">>
    /\ delayRows[2].code = <<"9","9","9">> /\ delayRows[2].mins = <<"2","0">>
    /\ Len(alerts) = 2
    /\ alerts[1] = [text |-> "Unknown delay code(s)", codes |-> << <<"9","9","9">> >>]
    /\ IsNull(savePending)

\* C9 as stated: a row is discarded only when it has neither a code nor
\* positive minutes, so a row whose code is absent from the table is reported
\* and rejects the batch whatever its minutes.
C9_Original ==
    [][ (SaveTimesClick
         /\ \E i \in 1..Len(delayRows) :
                /\ HasDigit(delayRows[i].code)
                /\ Str(NormCode(delayRows[i])) \notin DOMAIN DELAY_CODE_META) =>
            /\ IsNull(savePending')
            /\ alerts' /= <<>>
            /\ alerts'[1].text = "Unknown delay code(s)" ]_vars

\* C9: a row is discarded when its code has no digit or its minutes are
\* not a positive integer; only the other rows reach the table lookup. The
\* codes reported are those of the rows that reach it and miss the table, and
\* when there are none the batch is sent with one entry per row that reached it.
C9_DiscardRule ==
    [][ SaveTimesClick =>
            IF SurvivingUnknown = {}
            THEN /\ ~IsNull(savePending')
                 /\ Len(Val(savePending').delays) = Cardinality(Surviving)
                 /\ alerts' = <<>>
            ELSE /\ IsNull(savePending')
                 /\ CodesOf(alerts'[1]) = {NormCode(delayRows[i]) : i \in SurvivingUnknown} ]_vars

\* A row with code 999 and minutes 0 or none next to a row 1 / 20: the
\* batch is sent with the one entry, 999 is not reported
C9_Witness ==
    /\ ~IsNull(savePending)
    /\ Len(delayRows) = 2
    /\ delayRows[1].code = <<"1">> /\ delayRows[1].mins = <<"2","0">>
    /\ delayRows[2].code = <<"9","9","9">>
    /\ delayRows[2].mins \in {<<>>, <<"0">>}
    /\ Len(Val(savePending).delays) = 1
    /\ alerts = <<>>

\* C10: every entry of an accepted batch has a code of digits only, two
\* characters or more, that is a key of the table; it carries that key's id
\* and description and minutes above zero. The entries are the surviving rows
\* in order, a single digit with 0 before it.
C10_AcceptedEntries ==
    ~IsNull(savePending) =>
        LET ds == Val(savePending).delays
            sv == SelectSeq([i \in 1..Len(delayRows) |-> i], LAMBDA i : i \in Surviving)
        IN  /\ Len(ds) = Len(sv)
            /\ \A k \in 1..Len(ds) :
                  /\ ds[k].code /= <<>>
                  /\ \A j \in 1..Len(ds[k].code) : ds[k].code[j] \in AllDigits
                  /\ Len(ds[k].code) >= 2
                  /\ Str(ds[k].code) \in DOMAIN DELAY_CODE_META
                  /\ ds[k].delayCodeId = DELAY_CODE_META[Str(ds[k].code)].id
                  /\ ds[k].description = DELAY_CODE_META[Str(ds[k].code)].description
                  /\ ds[k].delayMinutes > 0
                  /\ k <= Len(sv) => /\ ds[k].code = NormCode(delayRows[sv[k]])
                                     /\ Some(ds[k].delayMinutes) = parseInt(delayRows[sv[k]].mins)
                                     /\ ds[k].isArrival = (currentTimeMode = Some("arr"))

\* The one row 1 / 20 saved: one entry with code 01 and the id of 01
C10_Witness ==
    /\ ~IsNull(savePending)
    /\ Len(delayRows) = 1
    /\ delayRows[1].code = <<"1">>
    /\ Len(Val(savePending).delays) = 1
    /\ Val(savePending).delays[1].code = <<"0","1">>
    /\ Val(savePending).delays[1].delayCodeId = 94
    /\ Val(savePending).delays[1].delayMinutes = 20

-----------------------------------------------------------------------------
(* Claims about the required and allocated delay *)

\* The minutes of the day a clock text HH:MM names
ClockMinutes(v) == DigitsValue(SubSeq(v, 1, 2)) * 60 + DigitsValue(SubSeq(v, 4, 5))

Abs(n) == IF n < 0 THEN 0 - n ELSE n

\* C11: in the departure dialog, with d = max(0, off-blocks entered minus
\* scheduled departure) in minutes, the delay section is shown exactly when
\* d > 15 and the required value is then d; otherwise it is hidden and the
\* required value is 0.
C11_DepartureRequirement ==
    ( /\ timeModalOpen
      /\ currentTimeMode = Some("dep")
      /\ ~IsNull(Val(currentFlight).stdSched)
      /\ core["time-offblocks"] /= <<>> ) =>
        LET std == Val(Val(currentFlight).stdSched) % 1440
            d0  == ClockMinutes(core["time-offblocks"]) - std
            d   == IF d0 < 0 THEN 0 ELSE d0
        IN  /\ delayShown <=> d > 15
            /\ delayRequired = IF d > 15 THEN NumStr(d) ELSE <<"0">>

\* Scheduled 08:00 with off-blocks 08:20: required 20
C11_Witness ==
    /\ timeModalOpen
    /\ currentTimeMode = Some("dep")
    /\ Val(currentFlight).stdSched = Some(480)
    /\ core["time-offblocks"] = <<"0","8",":","2","0">>
    /\ delayShown
    /\ delayRequired = <<"2","0">>

\* C12: in the arrival dialog the required delay is the absolute
\* difference in minutes between the ETA entered and the scheduled arrival,
\* the same for an early and a late arrival, and the delay section is shown
\* exactly when it is above 15.
C12_ArrivalRequirement ==
    ( /\ timeModalOpen
      /\ currentTimeMode = Some("arr")
      /\ ~IsNull(Val(currentFlight).staSched)
      /\ core["time-eta"] /= <<>> ) =>
        LET sta == Val(Val(currentFlight).staSched) % 1440
            d   == Abs(ClockMinutes(core["time-eta"]) - sta)
        IN  /\ delayShown <=> d > 15
            /\ delayRequired = IF d > 15 THEN NumStr(d) ELSE <<"0">>

RECURSIVE SumOver(_, _)
SumOver(S, trs) ==
    IF S = {} THEN 0
    ELSE LET i == CHOOSE x \in S : TRUE
         IN  Val(parseInt(trs[i].mins)) + SumOver(S \ {i}, trs)

\* C13: the allocated delay shown is the sum of the minutes of the rows
\* that survive validation; discarded rows add nothing.
C13_AllocatedSurviving ==
    (timeModalOpen /\ delayRows /= <<>>) =>
        delayAllocated = NumStr(SumOver(Surviving, delayRows))

-----------------------------------------------------------------------------
(* Claims about the timestamps of the payload *)

\* The instant a local timestamp YYYY-MM-DDTHH:MM names, in minutes since
\* midnight of day d1; null when the text is not such a timestamp with a
\* day of the calendar, an hour in 0..23 and a minute in 0..59
InstantOf(x) ==
    IF IsNull(x) THEN Null
    ELSE LET ps == Split(Val(x), "T")
         IN  IF Len(ps) /= 2 THEN Null
             ELSE IF ~IsYmd(ps[1]) \/ ~IsHm(ps[2]) \/ Len(ps[2]) /= 5 THEN Null
             ELSE LET ymd  == Split(ps[1], "-")
                      days == {i \in 1..Len(Calendar) :
                                  /\ Calendar[i].y = DigitsValue(ymd[1])
                                  /\ Calendar[i].mo = DigitsValue(ymd[2])
                                  /\ Calendar[i].d = DigitsValue(ymd[3])}
                      h    == DigitsValue(SubSeq(ps[2], 1, 2))
                      m    == DigitsValue(SubSeq(ps[2], 4, 5))
                  IN  IF days = {} \/ h > 23 \/ m > 59 THEN Null
                      ELSE Some(((CHOOSE i \in days : TRUE) - 2) * 1440 + h * 60 + m)

\* The instant of the entered date at a clock text
OnDate(date, hm) == InstantOf(Some(Val(date) \o <<"T">> \o Val(hm)))

\* C14: in a departure payload with an airborne time earlier than the
\* off-blocks time, the airborne timestamp is the instant on the next
\* calendar day, airborne + 24 h - off-blocks after the off-blocks timestamp;
\* otherwise it is the instant on the entered date.
C14_AirborneNextDay ==
    ( /\ ~IsNull(savePending)
      /\ Val(savePending).mode = "dep"
      /\ ~IsNull(Val(savePending).times.dep_date)
      /\ ~IsNull(Val(savePending).times.offblocks)
      /\ ~IsNull(Val(savePending).times.airborne) ) =>
        LET tm  == Val(savePending).times
            off == ClockMinutes(Val(tm.offblocks))
            air == ClockMinutes(Val(tm.airborne))
            o   == InstantOf(tm.offblocks_local)
            a   == InstantOf(tm.airborne_local)
        IN  /\ ~IsNull(o) /\ ~IsNull(a)
            /\ o = OnDate(tm.dep_date, tm.offblocks)
            /\ IF air < off
               THEN /\ Val(a) = Val(o) + (air + 1440 - off)
                    /\ Val(a) = Val(OnDate(tm.dep_date, tm.airborne)) + 1440
               ELSE a = OnDate(tm.dep_date, tm.airborne)

\* C15: in an arrival payload with a landing time later than the on-chocks
\* time, the landing timestamp is the instant 24 hours earlier, on the
\* previous calendar day at the landing clock time, a valid date and time
\* before the on-chocks timestamp; otherwise landing is on the entered date.
C15_LandingPreviousDay ==
    ( /\ ~IsNull(savePending)
      /\ Val(savePending).mode = "arr"
      /\ ~IsNull(Val(savePending).times.arr_date)
      /\ ~IsNull(Val(savePending).times.onchocks)
      /\ ~IsNull(Val(savePending).times.landing) ) =>
        LET tm   == Val(savePending).times
            on   == ClockMinutes(Val(tm.onchocks))
            land == ClockMinutes(Val(tm.landing))
            o    == InstantOf(tm.onblocks_local)
            l    == InstantOf(tm.landing_local)
        IN  /\ ~IsNull(o) /\ ~IsNull(l)
            /\ o = OnDate(tm.arr_date, tm.onchocks)
            /\ IF land > on
               THEN /\ Val(l) = Val(OnDate(tm.arr_date, tm.landing)) - 1440
                    /\ Val(l) < Val(o)
               ELSE l = OnDate(tm.arr_date, tm.landing)

-----------------------------------------------------------------------------
(* Claims about the timeline *)

FlightStarts == {Val(flights[i].stdEst) : i \in 1..Len(flights)}

FlightEnds == {Val(flights[i].staEst) : i \in 1..Len(flights)}

\* C16: for a non-empty active set the window is [earliest
\* display-start - 60, latest display-end + 60], so every flight's
\* display-start and display-end lie inside the window.
C16_WindowContainsFlights ==
    flights /= <<>> =>
        /\ chartStart = Some(MinOfSet(FlightStarts) - 60)
        /\ chartEnd = Some(MaxOfSet(FlightEnds) + 60)
        /\ \A i \in 1..Len(flights) :
              /\ Val(chartStart) <= Val(flights[i].stdEst)
              /\ Val(flights[i].stdEst) <= Val(chartEnd)
              /\ Val(chartStart) <= Val(flights[i].staEst)
              /\ Val(flights[i].staEst) <= Val(chartEnd)

\* C17: the axis has one tick at every whole hour t with window start <=
\* t <= window end and no other tick, and the position (t - window start) /
\* duration of each tick is in [0, 1], whether the window starts on a whole
\* hour or not.
C17_HourTicks ==
    flights /= <<>> =>
        /\ {axis[k] : k \in 1..Len(axis)}
              = {t \in Val(chartStart)..Val(chartEnd) : t % 60 = 0}
        /\ \A j, k \in 1..Len(axis) : j /= k => axis[j] /= axis[k]
        /\ \A k \in 1..Len(axis) :
              /\ 0 <= axis[k] - Val(chartStart)
              /\ axis[k] - Val(chartStart) <= durationMs

Occurrences(f, fs) == Cardinality({i \in 1..Len(fs) : fs[i] = f})

\* C18: every flight of the active set is in exactly one lane, the lane of
\* its registration, and the flights of each emitted lane are those of its
\* registration in ascending display-start order.
C18_LanesByRegistration ==
    /\ \A i \in 1..Len(flights) :
          LET f == flights[i]
              k == IF f.reg = <<>> THEN <<"U","N","K","N","O","W","N">> ELSE f.reg
          IN  /\ k \in DOMAIN byReg
              /\ Occurrences(f, byReg[k]) = 1
              /\ \A r \in DOMAIN byReg : r /= k => Occurrences(f, byReg[r]) = 0
              /\ Cardinality({l \in 1..Len(lanes) : Occurrences(f, lanes[l].bars) > 0})
                    = IF \E l \in 1..Len(lanes) : lanes[l].reg = k THEN 1 ELSE 0
    /\ \A r \in DOMAIN byReg : \A j \in 1..Len(byReg[r]) :
          Occurrences(byReg[r][j], flights) = 1
    /\ \A l \in 1..Len(lanes) :
          LET bars == lanes[l].bars
          IN  /\ lanes[l].reg \in DOMAIN byReg
              /\ Len(bars) = Len(byReg[lanes[l].reg])
              /\ \A j \in 1..Len(bars) : Occurrences(bars[j], byReg[lanes[l].reg]) = 1
              /\ \A j \in 1..(Len(bars) - 1) :
                    Val(bars[j].stdEst) <= Val(bars[j + 1].stdEst)
    /\ baseFilter = <<>> => Len(lanes) = Cardinality(DOMAIN byReg)

\* ZK-CIT with the 10:25 flight listed before the 08:00 one: the lane has
\* the 08:00 flight first
C18_Witness ==
    /\ Len(flights) = 2
    /\ flights[1].stdEst = Some(625) /\ flights[2].stdEst = Some(480)
    /\ flights[1].reg = flights[2].reg
    /\ Len(lanes) = 1
    /\ lanes[1].bars = <<flights[2], flights[1]>>

\* Does station s match the filter code b: the code itself or the ICAO
\* code the table maps it to
StationMatches(s, b) ==
    \/ s = b
    \/ (Str(b) \in DOMAIN BASE_ICAO /\ s = BASE_ICAO[Str(b)])

LaneMatches(r, b) ==
    \E j \in 1..Len(byReg[r]) :
        StationMatches(byReg[r][j].dep, b) \/ StationMatches(byReg[r][j].ades, b)

\* C19: the lanes emitted are, in the order of the registrations, exactly
\* those with a flight whose departure or arrival station is the filter code
\* or its ICAO code, all of them when the filter is empty; a change of the
\* filter leaves the active set, the grouping and the window unchanged.
C19_StationFilter ==
    /\ [](LET keep == SelectSeq(regs, LAMBDA r : baseFilter = <<>> \/ LaneMatches(r, baseFilter))
          IN  /\ Len(lanes) = Len(keep)
              /\ \A l \in 1..Len(lanes) : lanes[l].reg = keep[l])
    /\ [][baseFilter' /= baseFilter =>
             UNCHANGED <<flights, byReg, regs, chartStart, chartEnd, durationMs, axis>>]_vars

\* Filter CHC over ZK-CIT (AKL-WLG), ZK-CIZ (WLG-CHC) and ZK-MCO
\* (NZCH-NZQN): the lanes of ZK-CIZ and ZK-MCO
C19_Witness ==
    /\ baseFilter = <<"C","H","C">>
    /\ Len(regs) = 3
    /\ Len(lanes) = 2
    /\ lanes[1].reg = <<"Z","K","-","C","I","Z">>
    /\ lanes[2].reg = <<"Z","K","-","M","C","O">>
    /\ lanes[2].bars[1].dep = <<"N","Z","C","H">>

-----------------------------------------------------------------------------
(* Claims about the seat map *)

\* The passenger of a seat: the last of the list whose seat text, in upper
\* case, is the seat code
Occupant(seatCode) ==
    LET at == {i \in 1..Len(seatmapPax) : Str(SeatKey(seatmapPax[i])) = seatCode
                                          /\ SeatKey(seatmapPax[i]) /= <<>>}
    IN  IF at = {} THEN Null ELSE Some(seatmapPax[MaxOfSet(at)])

\* The service codes of a passenger, in upper case
ServiceCodes(p) ==
    LET l == Val(SsrsField(p))
    IN  {toUpperCase(IF ~IsNull(l[i].Code) /\ Val(l[i].Code) /= <<>> THEN Val(l[i].Code)
                     ELSE IF ~IsNull(l[i].code) THEN Val(l[i].code) ELSE <<>>) :
            i \in 1..Len(l)}

FareType(p) ==
    toUpperCase(IF ~IsNull(p.PassengerType) /\ Val(p.PassengerType) /= <<>>
                THEN Val(p.PassengerType)
                ELSE IF ~IsNull(p.passengerType) THEN Val(p.passengerType) ELSE <<>>)

BaseClass(codes, fare) ==
    IF codes \cap {<<"U","M","N","R">>, <<"U","M">>} /= {}
          \/ fare \in {<<"C","H">>, <<"C","H","D">>}
    THEN "seat-child"
    ELSE IF codes \cap {<<"I","N","F","T">>, <<"I","N","F">>} /= {}
    THEN "seat-adult-infant"
    ELSE "seat-adult"

\* Is c a wheelchair code or a special code other than the unaccompanied minor's
OverlayOnly(c) ==
    \/ (Len(c) >= 2 /\ c[1] = "W" /\ c[2] = "C")
    \/ c \in {<<"C","K","I","N">>, <<"D","E","A","F">>, <<"P","E","T","C">>,
              <<"V","V","I","P">>, <<"U","N","Z","Z">>}

\* The passenger without the wheelchair and special codes
WithoutOverlay(p) ==
    LET keep(l) == IF IsNull(l) THEN l
                   ELSE Some(SelectSeq(Val(l), LAMBDA s : ~OverlayOnly(SsrCode(s))))
    IN  [p EXCEPT !.Ssrs = keep(p.Ssrs), !.SSRs = keep(p.SSRs),
                  !.SpecialServiceRequests = keep(p.SpecialServiceRequests)]

\* C20: an occupied seat is child when its passenger has the service code
\* UMNR or UM or the fare type CH or CHD, otherwise adult-with-infant when
\* the passenger has the service code INFT or INF, otherwise adult; with an
\* unaccompanied-minor code it is child whatever the fare type, and the
\* class is the one the passenger has without the wheelchair and special codes.
C20_SeatBaseClass ==
    (~IsNull(seatmap) /\ ~IsNull(Val(seatmap).key)) =>
        \A s \in SeatCells :
            LET o == Occupant(s)
            IN  IF IsNull(o) THEN Val(seatmap).seats[s].base = "seat-empty"
                ELSE LET codes == ServiceCodes(Val(o))
                     IN  /\ Val(seatmap).seats[s].base = BaseClass(codes, FareType(Val(o)))
                         /\ codes \cap {<<"U","M","N","R">>, <<"U","M">>} /= {}
                               => Val(seatmap).seats[s].base = "seat-child"
                         /\ Val(seatmap).seats[s].base = SeatOf(WithoutOverlay(Val(o))).base

\* Seat 1A holds an adult-fare passenger with a wheelchair code and UMNR:
\* the seat is child and carries both icons
C20_Witness ==
    /\ ~IsNull(seatmap)
    /\ ~IsNull(Val(seatmap).key)
    /\ ~IsNull(Occupant("1A"))
    /\ FareType(Val(Occupant("1A"))) = <<"A","D","T">>
    /\ ServiceCodes(Val(Occupant("1A"))) = {<<"W","C","H","R">>, <<"U","M","N","R">>}
    /\ Val(seatmap).seats["1A"].base = "seat-child"
    /\ Val(seatmap).seats["1A"].icons = <<"umnr", "special", "wheelchair">>

\* C21: the layout is chosen by the ordered rules: a flight with the
\* registration ZK-CIT or ZK-CIZ gets the layout of that tail, never the
\* generic layout of a family, and a flight that matches no rule gets no
\* seat map and an empty container.
C21_TailOverridesFamily ==
    ~IsNull(seatmap) =>
        LET f == Val(seatmapFlight)
            t == toUpperCase(f.aircraftType)
            atr  == includesCI(f.aircraftType, <<"A","T","R">>) \/ includes(f.reg, <<"M","C","U">>)
            saab == \/ includesCI(f.aircraftType, <<"S","A","A","B">>)
                    \/ includesCI(f.aircraftType, <<"S","F","3">>)
                    \/ startsWith(f.reg, <<"Z","K","-","C","I">>)
                    \/ startsWith(f.reg, <<"Z","K","-","K","R">>)
        IN  /\ f.reg = <<"Z","K","-","C","I","T">> => Val(seatmap).key = Some("SF3_CIT")
            /\ f.reg = <<"Z","K","-","C","I","Z">> => Val(seatmap).key = Some("SF3_CIZ")
            /\ (~atr /\ ~saab) => (Val(seatmap).key = Null /\ Val(seatmap).seats = <<>>)
            /\ (atr \/ saab) => ~IsNull(Val(seatmap).key)

-----------------------------------------------------------------------------
(* Claims about the requests in flight *)

\* C29: the answer of the roster to a dialog built earlier, arriving after
\* the dialog was built again for another flight or mode, changes neither the
\* required delay nor the delay section of the dialog now built.
C29_StaleRosterAnswer ==
    [][\A i \in 1..Len(timesPending) :
          ( /\ timesPending' = RemoveAt(timesPending, i)
            /\ ~IsNull(timesPending[i].inputs)
            /\ \/ Some(timesPending[i].flight) /= currentFlight
               \/ Some(timesPending[i].mode) /= currentTimeMode )
          => UNCHANGED <<delayRequired, delayShown>>]_vars

C27_StartNotAfterEnd ==
    \A i \in 1..Len(flights) : Val(flights[i].stdEst) <= Val(flights[i].staEst)

\* The day whose rows are shown
ShownDays == {d \in Days : rows \in ResultsFor(d)}

\* C28: once every refresh has answered, the Loaded label names the date
\* whose rows make up the flights shown.
C28_LabelNamesShownDate ==
    (pending = <<>> /\ flights /= <<>>) => (~IsNull(loadedDate) /\ Val(loadedDate) \in ShownDays)

\* C30: the loading overlay is shown exactly while a manual refresh is in
\* flight; a silent refresh neither shows nor hides it.
C30_OverlayWhileManualInFlight ==
    loading <=> (\E i \in 1..Len(pending) : pending[i].manual)

\* C26: a save that fails (an HTTP error, ok:false, or a failed request)
\* raises an alert and leaves the flight, the mode, the times, the delay rows
\* and the flight set as they are and the dialog open.
C26_FailedSaveKeepsSession ==
    [][(~IsNull(savePending) /\ IsNull(savePending') /\ alerts' /= <<>>) =>
          /\ timeModalOpen'
          /\ UNCHANGED <<currentFlight, currentTimeMode, core, delayRows, flights>>]_vars

\* C22: for a flight with a roster link the 'get crew' call is made at most
\* once, over every sequence of bar clicks and roster answers.
C22_CrewFetchedOnce ==
    \A i \in 1..Len(flights) :
        ~IsNull(flights[i].envisionFlightId) => CallsFor(flights[i].id) <= 1

\* C24: a passenger list or a seat map is computed from a flight of the
\* flight set of that moment.
C24_ViewsUseCurrentSet ==
    [][/\ paxListFor' /= paxListFor =>
             \E i \in 1..Len(flights) : Some(flights[i]) = paxListFor'
       /\ seatmapFlight' /= seatmapFlight =>
             \E i \in 1..Len(flights) : Some(flights[i]) = seatmapFlight']_vars

\* The fields the text of an alert names
FieldsNamed(a) ==
    IF a.text = "Cannot send to APG: missing required data (plan/dep/ades/date/flight)."
    THEN {"plan", "dep", "ades", "date", "flight"}
    ELSE {}

\* The fields a flight lacks for a plan push
FieldsMissing(f) ==
    LET p == PlanPayload(f)
    IN  {w \in {"plan", "dep", "ades", "date", "designator", "flight"} :
            \/ (w = "plan" /\ p.apg_plan_id = <<>>)
            \/ (w = "dep" /\ p.dep = <<>>)
            \/ (w = "ades" /\ p.ades = <<>>)
            \/ (w = "date" /\ p.date = <<>>)
            \/ (w = "designator" /\ p.designator = <<>>)
            \/ (w = "flight" /\ p.flight_number = <<>>)}

\* C25: a plan push for a flight that lacks one of plan id, departure,
\* arrival, date, designator, flight number sends no request, and the
\* rejection names the fields that are missing.
C25_RejectionNamesMissing ==
    [][/\ apgPending' /= apgPending /\ apgPending' /= <<>>
             => FieldsMissing(Val(currentFlight)) = {}
       /\ (alerts' /= alerts /\ alerts' /= <<>>) =>
             /\ apgPending' = apgPending
             /\ FieldsMissing(Val(currentFlight)) /= {}
             /\ \A k \in 1..Len(alerts') :
                   FieldsNamed(alerts'[k]) = FieldsMissing(Val(currentFlight))]_vars

====
